---- MODULE Spec2Model ----
(***************************************************************************)
(* Model of the mesh baking pipeline of vk_PBR_Shading:                    *)
(*   - cw2-bake/index_mesh.cpp : make_indexed_mesh, the discretizer, the   *)
(*     vicinity map and collapse_vertices_ (vertex welding);               *)
(*   - cw2-bake/main.cpp       : write_model_data_ (binary container);     *)
(*   - cw2/baked_model.cpp     : load_baked_model (container reader);      *)
(*   - cw2/load_data_to_vk.cpp : set_up_model (material descriptors).      *)
(*                                                                         *)
(* Numbers.  A float is modelled by an integer number of fixed-point units *)
(* and float arithmetic by exact arithmetic on them.  A std::size_t is a   *)
(* 64-bit word kept as four 16-bit limbs, least significant first, where   *)
(* its width matters (the hash).  A std::uint32_t that is written to or    *)
(* read from the file is kept as its four bytes, least significant first   *)
(* (the object representation fwrite()/fread() copy on the little-endian   *)
(* targets of the program).                                                *)
(***************************************************************************)
EXTENDS Integers, Sequences, FiniteSets, TLC

\* ------------------------------------------------------------------------
\* 64-bit words (std::size_t) as four 16-bit limbs
\* ------------------------------------------------------------------------
Limb == 65536

\* bit k (given as its weight 1, 2, 4, 8) of a
Bit(a, w) == (a \div w) % 2

\* exclusive or of two bits
XorBit(x, y) == (x + y) % 2

\* 4-bit exclusive or
Xor4(a, b) ==
  XorBit(Bit(a, 1), Bit(b, 1))
  + 2 * XorBit(Bit(a, 2), Bit(b, 2))
  + 4 * XorBit(Bit(a, 4), Bit(b, 4))
  + 8 * XorBit(Bit(a, 8), Bit(b, 8))

\* ... tabulated once: XorNibble[a][b] = Xor4(a, b) for a, b in 0..15
RECURSIVE XorRow(_, _)
XorRow(a, b) == IF b < 0 THEN <<>> ELSE (b :> Xor4(a, b)) @@ XorRow(a, b - 1)

RECURSIVE XorRows(_)
XorRows(a) == IF a < 0 THEN <<>> ELSE (a :> XorRow(a, 15)) @@ XorRows(a - 1)

XorNibble == XorRows(15)

Xor16(a, b) ==
  XorNibble[a % 16][b % 16]
  + 16 * XorNibble[(a \div 16) % 16][(b \div 16) % 16]
  + 256 * XorNibble[(a \div 256) % 16][(b \div 256) % 16]
  + 4096 * XorNibble[a \div 4096][b \div 4096]

W64Xor(a, b) == <<Xor16(a[1], b[1]), Xor16(a[2], b[2]), Xor16(a[3], b[3]), Xor16(a[4], b[4])>>

\* a + b modulo 2^64
W64Add(a, b) ==
  LET s1 == a[1] + b[1]
      s2 == a[2] + b[2] + (s1 \div Limb)
      s3 == a[3] + b[3] + (s2 \div Limb)
      s4 == a[4] + b[4] + (s3 \div Limb)
  IN  <<s1 % Limb, s2 % Limb, s3 % Limb, s4 % Limb>>

\* a << 6 modulo 2^64
W64Shl6(a) ==
  << (a[1] * 64) % Limb,
     ((a[2] * 64) % Limb) + (a[1] \div 1024),
     ((a[3] * 64) % Limb) + (a[2] \div 1024),
     ((a[4] * 64) % Limb) + (a[3] \div 1024) >>

\* a >> 2
W64Shr2(a) ==
  << (a[1] \div 4) + (a[2] % 4) * 16384,
     (a[2] \div 4) + (a[3] % 4) * 16384,
     (a[3] \div 4) + (a[4] % 4) * 16384,
     (a[4] \div 4) >>

\* conversion std::int32_t -> std::size_t (sign extension)
W64FromInt32(x) ==
  IF x >= 0
    THEN <<x % Limb, x \div Limb, 0, 0>>
    ELSE LET y == (-x) - 1
         IN  <<(Limb - 1) - (y % Limb), (Limb - 1) - (y \div Limb), Limb - 1, Limb - 1>>

\* ------------------------------------------------------------------------
\* cw2-bake/index_mesh.cpp
\* ------------------------------------------------------------------------
kAABBMarginFactor == 10
kSparseGridMaxSize == 1048576
kNeighbourCount_ == 27

\* ~std::size_t(0), the "not yet merged" mark of the collapse map
Unassigned == -1

\* std::hash<std::size_t>: the identity in libstdc++ and libc++
gHash_(x) == W64FromInt32(x)

\* the constant 0x9e3779b9 of boost::hash_combine
kHashCombine == <<31161, 40503, 0, 0>>

\* hash ^= gHash_(v) + 0x9e3779b9 + (hash<<6) + (hash>>2)
\* (each intermediate word is bound to its value before it is used)
HashMix(hash, v) ==
  CHOOSE r \in { W64Xor(h, t3) :
                   t3 \in { W64Add(t2, sr) :
                     t2 \in { W64Add(t1, sl) :
                       t1 \in { W64Add(gHash_(v), kHashCombine) },
                       sl \in { W64Shl6(hash) } },
                     sr \in { W64Shr2(hash) } },
                   h \in { hash } } : TRUE

hash_discretized_position_(aDP) ==
  CHOOSE r \in { HashMix(h1, aDP[3]) :
                   h1 \in { HashMix(h0, aDP[2]) : h0 \in { gHash_(aDP[1]) } } } : TRUE

\* The keys of the cells next to the grid origin, tabulated once: the same
\* values as hash_discretized_position_, looked up instead of recomputed.
TabulatedCells == -1..13

RECURSIVE TabulateZ(_, _, _)
TabulateZ(x, y, cells) ==
  IF cells = {} THEN <<>>
  ELSE LET z == CHOOSE d \in cells : TRUE
       IN  (z :> hash_discretized_position_(<<x, y, z>>)) @@ TabulateZ(x, y, cells \ {z})

RECURSIVE TabulateY(_, _)
TabulateY(x, cells) ==
  IF cells = {} THEN <<>>
  ELSE LET y == CHOOSE d \in cells : TRUE
       IN  (y :> TabulateZ(x, y, TabulatedCells)) @@ TabulateY(x, cells \ {y})

RECURSIVE TabulateX(_)
TabulateX(cells) ==
  IF cells = {} THEN <<>>
  ELSE LET x == CHOOSE d \in cells : TRUE
       IN  (x :> TabulateY(x, TabulatedCells)) @@ TabulateX(cells \ {x})

KeyTable == TabulateX(TabulatedCells)

VicinityKey(aDP) ==
  IF aDP[1] \in TabulatedCells /\ aDP[2] \in TabulatedCells /\ aDP[3] \in TabulatedCells
    THEN KeyTable[aDP[1]][aDP[2]][aDP[3]]
    ELSE hash_discretized_position_(aDP)

\* floor(d * f / s) for 0 <= d <= s, f >= 0 and s > 0: the exact value of
\* (aPos - min) * scale with scale = aFactor / aSide.  It is computed bit by
\* bit of f so that no intermediate value leaves the range of the model's
\* integers: MulDivStep returns <<q, r>> with d * (f \div w) = q * s + r and
\* 0 <= r < s.
RECURSIVE MulDivStep(_, _, _, _)
MulDivStep(d, f, s, w) ==
  IF w > f THEN <<0, 0>>
  ELSE CHOOSE x \in
         { << 2 * prev[1] + Bit(f, w) * (d \div s)
                + ((2 * prev[2] + Bit(f, w) * (d % s)) \div s),
              (2 * prev[2] + Bit(f, w) * (d % s)) % s >> :
             prev \in { MulDivStep(d, f, s, 2 * w) } } : TRUE

MulDivFloor(d, f, s) == MulDivStep(d, f, s, 1)[1]

\* ---- inputs of the model ------------------------------------------------
\* largest x coordinate of a soup position, in fixed-point units
MaxCoord == 2
\* largest error tolerance, in fixed-point units
MaxTolerance == 1
\* two texture coordinates / normal components that differ by more than
\* every tolerance of the model
AttrFar == MaxTolerance + 1

Max(a, b) == IF a >= b THEN a ELSE b
Min(a, b) == IF a <= b THEN a ELSE b
Abs(a) == IF a >= 0 THEN a ELSE -a

\* one triangle corner as the parser supplies it: position, normal, texcoord
Corner(x, n, u) == [vert |-> <<x, 0, 0>>, norm |-> <<0, 0, n>>, text |-> <<u, 0>>]

\* the corners the soups of the model are made of: positions MaxCoord + 1
\* apart in steps of one unit, each on either side of a UV seam (second
\* texcoord) or of a hard edge (second normal)
Corners ==
  { Corner(x, a[1], a[2]) : x \in 0..MaxCoord,
                            a \in {<<0, 0>>, <<AttrFar, 0>>, <<0, AttrFar>>} }

\* struct TriangleSoup: three parallel arrays; norm may be empty
MakeSoup(cs, withNormals) ==
  [ vert |-> [k \in 1..Len(cs) |-> cs[k].vert],
    norm |-> IF withNormals THEN [k \in 1..Len(cs) |-> cs[k].norm] ELSE <<>>,
    text |-> [k \in 1..Len(cs) |-> cs[k].text] ]

\* one triangle; without normals only the corners that differ in position or
\* texcoord are distinct inputs
Soups ==
  { MakeSoup(cs, TRUE) : cs \in [1..3 -> Corners] }
  \cup { MakeSoup(cs, FALSE) : cs \in [1..3 -> {c \in Corners : c.norm[3] = 0}] }

Tolerances == 0..MaxTolerance

SoupSize(aSoup) == Len(aSoup.vert)
VertexIds(aSoup) == 0..(SoupSize(aSoup) - 1)

\* ---- make_indexed_mesh: bounding volume and grid --------------------------
RECURSIVE FoldMin(_, _, _)
FoldMin(aSoup, axis, n) ==
  \* bmin = min(bmin, aSoup.vert[vert]) over the first n vertices; the start
  \* value numeric_limits<float>::max() is above every coordinate
  IF n = 1 THEN aSoup.vert[1][axis]
  ELSE Min(FoldMin(aSoup, axis, n - 1), aSoup.vert[n][axis])

RECURSIVE FoldMax(_, _, _)
FoldMax(aSoup, axis, n) ==
  \* bmax = max(bmax, aSoup.vert[vert]) over the first n vertices; the start
  \* value numeric_limits<float>::min() is the smallest POSITIVE float, which
  \* lies strictly between 0 and one unit: it is written 0 here and the axes
  \* on which it survives are recorded by BMaxIsFltMin
  IF n = 0 THEN 0
  ELSE Max(FoldMax(aSoup, axis, n - 1), aSoup.vert[n][axis])

BMin(aSoup) == [axis \in 1..3 |-> FoldMin(aSoup, axis, SoupSize(aSoup))]
BMax(aSoup) == [axis \in 1..3 |-> FoldMax(aSoup, axis, SoupSize(aSoup))]
BMaxIsFltMin(aSoup) ==
  { axis \in 1..3 : \A v \in 1..SoupSize(aSoup) : aSoup.vert[v][axis] <= 0 }

FMin(aSoup, tol) == [axis \in 1..3 |-> BMin(aSoup)[axis] - kAABBMarginFactor * tol]
FMax(aSoup, tol) == [axis \in 1..3 |-> BMax(aSoup)[axis] + kAABBMarginFactor * tol]

MaxSide(aSoup, tol) ==
  LET side == [axis \in 1..3 |-> FMax(aSoup, tol)[axis] - FMin(aSoup, tol)[axis]]
  IN  Max(side[1], Max(side[2], side[3]))

\* (mutant: numCells = maxSide / (.5f * aErrorTolerance))
SubdivChoices_HalfTolerance(aSoup, tol) ==
  IF tol = 0
    THEN {0, kSparseGridMaxSize}
    ELSE { Min(kSparseGridMaxSize, (4 * MaxSide(aSoup, tol) + tol) \div (2 * tol)) }

\* std::size_t(numCells + .5f) with numCells = maxSide / (2.f * aErrorTolerance).
\* With a zero tolerance numCells is infinite or NaN and the conversion is
\* undefined: the builds of the program yield 0 or a value above the cap.
SubdivChoices(aSoup, tol) ==
  IF tol = 0
    THEN {0, kSparseGridMaxSize}
    ELSE { Min(kSparseGridMaxSize, (MaxSide(aSoup, tol) + tol) \div (2 * tol)) }

\* std::uint32_t(NaN) (0 * inf when the side is zero) is undefined: 0 on
\* x86-64 and AArch64; the model also lets it be one other, far away cell
NanCells == {0, 1073741824}

\* Discretizer_::Discretizer_ : min and scale = aFactor / aSide, kept as the
\* pair factor, side
Discretizer_(aFactor, aMin, aSide, aNan) ==
  [min |-> aMin, factor |-> aFactor, side |-> aSide, nan |-> aNan]

\* Discretizer_::discretize
DiscretizeAxis(aD, aPos, axis) ==
  IF aD.side = 0 THEN aD.nan
  ELSE MulDivFloor(aPos[axis] - aD.min[axis], aD.factor, aD.side)

discretize(aD, aPos) ==
  << DiscretizeAxis(aD, aPos, 1), DiscretizeAxis(aD, aPos, 2), DiscretizeAxis(aD, aPos, 3) >>

\* build_vicinity_map_: the multimap as the set of its (key, index) entries
build_vicinity_map_(aD, aPositions) ==
  { <<VicinityKey(discretize(aD, aPositions[index + 1])), index>> :
      index \in 0..(Len(aPositions) - 1) }

\* (mutant: a map that keeps one entry per key instead of a multimap)
equal_range_OnePerKey(aVM, vk) ==
  LET found == { e[2] : e \in { f \in aVM : f[1] = vk } }
  IN  IF found = {} THEN {} ELSE { CHOOSE idx \in found : \A o \in found : idx <= o }

\* VicinityMap_::equal_range: the indices stored under a key
equal_range(aVM, vk) == { e[2] : e \in { f \in aVM : f[1] = vk } }

\* ---- mergable_ -------------------------------------------------------------
\* (mutant: the texture coordinates are not compared)
mergable_NoTexcoord(aSoup, aI, aJ, aIPos, aJPos, tol) ==
  /\ \A k \in 1..3 : ~(Abs(aIPos[k] - aJPos[k]) > tol)
  /\ (aSoup.norm # <<>>) =>
       \A k \in 1..3 : ~(Abs(aSoup.norm[aI + 1][k] - aSoup.norm[aJ + 1][k]) > tol)

\* (mutant: >= in place of > in the three comparisons)
mergable_Strict(aSoup, aI, aJ, aIPos, aJPos, tol) ==
  /\ \A k \in 1..3 : ~(Abs(aIPos[k] - aJPos[k]) >= tol)
  /\ (aSoup.norm # <<>>) =>
       \A k \in 1..3 : ~(Abs(aSoup.norm[aI + 1][k] - aSoup.norm[aJ + 1][k]) >= tol)
  /\ \A k \in 1..2 : ~(Abs(aSoup.text[aI + 1][k] - aSoup.text[aJ + 1][k]) >= tol)

mergable_(aSoup, aI, aJ, aIPos, aJPos, tol) ==
  /\ \A k \in 1..3 : ~(Abs(aIPos[k] - aJPos[k]) > tol)
  /\ (aSoup.norm # <<>>) =>
       \A k \in 1..3 : ~(Abs(aSoup.norm[aI + 1][k] - aSoup.norm[aJ + 1][k]) > tol)
  /\ \A k \in 1..2 : ~(Abs(aSoup.text[aI + 1][k] - aSoup.text[aJ + 1][k]) > tol)

\* ---- neighbour_ ------------------------------------------------------------
offset ==
  << <<0, 0, 0>>,   <<0, 0, 1>>,   <<0, 0, -1>>,
     <<0, 1, 0>>,   <<0, 1, 1>>,   <<0, 1, -1>>,
     <<0, -1, 0>>,  <<0, -1, 1>>,  <<0, -1, -1>>,
     <<1, 0, 0>>,   <<1, 0, 1>>,   <<1, 0, -1>>,
     <<1, 1, 0>>,   <<1, 1, 1>>,   <<1, 1, -1>>,
     <<1, -1, 0>>,  <<1, -1, 1>>,  <<1, -1, -1>>,
     <<-1, 0, 0>>,  <<-1, 0, 1>>,  <<-1, 0, -1>>,
     <<-1, 1, 0>>,  <<-1, 1, 1>>,  <<-1, 1, -1>>,
     <<-1, -1, 0>>, <<-1, -1, 1>>, <<-1, -1, -1>> >>

\* (mutant: only the vertex's own cell is looked up)
neighbour_OwnCell(aDP, aJ) == aDP

neighbour_(aDP, aJ) ==
  << aDP[1] + offset[aJ + 1][1], aDP[2] + offset[aJ + 1][2], aDP[3] + offset[aJ + 1][3] >>

\* ---- collapse_vertices_ -----------------------------------------------------
\* The locals of collapse_vertices_ while its loop runs: the collapse map,
\* nextVertex, the two output arrays, and merged / target of the iteration.
\* writes counts the stores into each collapse-map entry (history only).

\* the body of the loop over one bucket (lines 371-401).  Every entry of the
\* bucket that passes the three tests is stored the same toWhere, and the
\* tests of one entry do not read what the loop stores for another, so the
\* order in which the multimap yields the entries does not matter.
\* (mutant: the "don't remerge" test is missing)
BucketMatches_Remerge(st, aSoup, tol, i, bucket) ==
  { idx \in bucket :
      /\ idx # i
      /\ mergable_(aSoup, i, idx, aSoup.vert[i + 1], aSoup.vert[idx + 1], tol) }

\* the entries of a bucket that pass the tests of lines 375-379
BucketMatches(st, aSoup, tol, i, bucket) ==
  { idx \in bucket :
      /\ idx # i
      /\ st.collapseMap[idx] = Unassigned
      /\ mergable_(aSoup, i, idx, aSoup.vert[i + 1], aSoup.vert[idx + 1], tol) }

ScanBucket(st, aSoup, tol, i, bucket) ==
  LET matches == BucketMatches(st, aSoup, tol, i, bucket)
      toWhere == IF st.merged THEN st.target ELSE st.nextVertex
  IN  IF matches = {} THEN st
      ELSE [ collapseMap |->
               [v \in DOMAIN st.collapseMap |->
                  IF v \in matches \/ (v = i /\ ~st.merged) THEN toWhere
                  ELSE st.collapseMap[v]],
             writes |->
               [v \in DOMAIN st.writes |->
                  IF v \in matches \/ (v = i /\ ~st.merged) THEN st.writes[v] + 1
                  ELSE st.writes[v]],
             nextVertex |-> IF st.merged THEN st.nextVertex ELSE st.nextVertex + 1,
             aVertices |-> IF st.merged THEN st.aVertices ELSE Append(st.aVertices, i),
             aIndices |-> IF st.merged THEN st.aIndices ELSE Append(st.aIndices, toWhere),
             merged |-> TRUE,
             target |-> toWhere ]

\* the loop over the kNeighbourCount_ neighbour cells (lines 365-402), from
\* neighbour j on
RECURSIVE ScanNeighbours(_, _, _, _, _, _, _)
ScanNeighbours(st, aVM, aSoup, tol, i, dp, j) ==
  IF j = kNeighbourCount_ THEN st
  ELSE CHOOSE r \in
         { ScanNeighbours(st2, aVM, aSoup, tol, i, dp, j + 1) :
             st2 \in { ScanBucket(st, aSoup, tol, i,
                         equal_range(aVM, VicinityKey(neighbour_(dp, j)))) } }
         : TRUE

\* (mutant: toWhere = ++nextVertex)
NoMerge_PreIncrement(st, i) ==
  IF st.merged THEN st
  ELSE [ st EXCEPT !.collapseMap[i] = st.nextVertex + 1,
                   !.writes[i] = st.writes[i] + 1,
                   !.nextVertex = st.nextVertex + 1,
                   !.aVertices = Append(st.aVertices, i),
                   !.aIndices = Append(st.aIndices, st.nextVertex + 1) ]

\* (mutant: toWhere = nextVertex, without the increment)
NoMerge_NoIncrement(st, i) ==
  IF st.merged THEN st
  ELSE [ st EXCEPT !.collapseMap[i] = st.nextVertex,
                   !.writes[i] = st.writes[i] + 1,
                   !.aVertices = Append(st.aVertices, i),
                   !.aIndices = Append(st.aIndices, st.nextVertex) ]

\* lines 404-411: no neighbour merged, the vertex opens a slot of its own
NoMerge(st, i) ==
  IF st.merged THEN st
  ELSE [ st EXCEPT !.collapseMap[i] = st.nextVertex,
                   !.writes[i] = st.writes[i] + 1,
                   !.nextVertex = st.nextVertex + 1,
                   !.aVertices = Append(st.aVertices, i),
                   !.aIndices = Append(st.aIndices, st.nextVertex) ]

\* one iteration of the loop over the vertices (lines 348-412) for a vertex
\* that is not merged yet
ScanVertex(st, aVM, aD, aSoup, tol, i) ==
  NoMerge(ScanNeighbours([st EXCEPT !.merged = FALSE, !.target = Unassigned],
                         aVM, aSoup, tol, i, discretize(aD, aSoup.vert[i + 1]), 0), i)

\* ------------------------------------------------------------------------
\* State of one call of make_indexed_mesh
\* ------------------------------------------------------------------------
VARIABLES
  pc,              \* where make_indexed_mesh is: "bounds", "collapse", "shuffle", "done"
  aSoup,           \* the triangle soup passed in
  aErrorTolerance, \* the tolerance passed in
  dis,             \* Discretizer_ dis
  vincinityMap,    \* VicinityMap_ vincinityMap
  cv,              \* the locals of collapse_vertices_ (see ScanBucket)
  i,               \* the loop variable of collapse_vertices_
  ret              \* IndexedMesh ret

meshVars == <<pc, aSoup, aErrorTolerance, dis, vincinityMap, cv, i, ret>>

\* The baker's output stage (cw2-bake/main.cpp) and the renderer's loader
\* (cw2/baked_model.cpp, cw2/load_data_to_vk.cpp)
VARIABLES
  ioPc,            \* where the bake / load / set-up pipeline is
  NDEBUG,          \* TRUE when the loader is built with assert() compiled out
  aModel,          \* InputModel passed to write_model_data_
  aIndexedMeshes,  \* std::vector<IndexedMesh> passed to write_model_data_
  aTextures,       \* the unique-texture map passed to write_model_data_
  file,            \* the bytes of the container file on disk
  aModelPath,      \* the path load_baked_model is called with
  fin,             \* the FILE* of the loader: position and history of reads
  baked,           \* BakedModel ret of load_baked_model_, as built so far
  result,          \* what load_baked_model hands to its caller
  pack,            \* what set_up_model does with the textures of the model
  fof,             \* FILE* fof of process_model_, with the fwrite calls made on it
  copies           \* the std::filesystem::copy_file calls process_model_ has made

ioVars == <<ioPc, NDEBUG, aModel, aIndexedMeshes, aTextures, file, aModelPath,
            fin, baked, result, pack, fof, copies>>

NoDiscretizer == Discretizer_(0, <<0, 0, 0>>, 0, 0)

\* A component of the bounding box a mesh carries: a number of whole
\* fixed-point units plus a multiple of the smallest positive float, which is
\* less than every unit.
Exact(x) == <<x, 0>>
\* numeric_limits<float>::min(): the smallest positive normalized float
FltMin == <<0, 1>>
\* numeric_limits<float>::max(): above every coordinate
FltMax == <<2147483647, 0>>

\* IndexedMesh::IndexedMesh and the empty vectors
EmptyMesh ==
  [ vert |-> <<>>, norm |-> <<>>, text |-> <<>>, tangent |-> <<>>, indices |-> <<>>,
    aabbMin |-> <<FltMax, FltMax, FltMax>>,
    aabbMax |-> <<FltMin, FltMin, FltMin>> ]

\* collapse_vertices_, lines 336-347
CollapseStart(n) ==
  [ collapseMap |-> [v \in 0..(n - 1) |-> Unassigned],
    writes |-> [v \in 0..(n - 1) |-> 0],
    nextVertex |-> 0,
    aVertices |-> <<>>,
    aIndices |-> <<>>,
    merged |-> FALSE,
    target |-> Unassigned ]

MeshInit ==
  /\ pc = "bounds"
  /\ aSoup \in Soups
  /\ aErrorTolerance \in Tolerances
  /\ dis = NoDiscretizer
  /\ vincinityMap = {}
  /\ cv = CollapseStart(0)
  /\ i = 0
  /\ ret = EmptyMesh

\* make_indexed_mesh, lines 76-101, and the entry of collapse_vertices_
BuildVicinityMap ==
  /\ pc = "bounds"
  /\ \E subdiv \in SubdivChoices(aSoup, aErrorTolerance) :
     \E nan \in (IF MaxSide(aSoup, aErrorTolerance) = 0 THEN NanCells ELSE {0}) :
       dis' = Discretizer_(subdiv, FMin(aSoup, aErrorTolerance),
                           MaxSide(aSoup, aErrorTolerance), nan)
  /\ vincinityMap' = build_vicinity_map_(dis', aSoup.vert)
  /\ cv' = CollapseStart(SoupSize(aSoup))
  /\ i' = 0
  /\ pc' = "collapse"
  /\ UNCHANGED <<aSoup, aErrorTolerance, ret>>
  /\ UNCHANGED ioVars

\* collapse_vertices_, lines 351-356: the vertex was merged by an earlier one
CollapseMerged ==
  /\ pc = "collapse"
  /\ i < SoupSize(aSoup)
  /\ cv.collapseMap[i] # Unassigned
  /\ cv' = [cv EXCEPT !.aIndices = Append(cv.aIndices, cv.collapseMap[i])]
  /\ i' = i + 1
  /\ UNCHANGED <<pc, aSoup, aErrorTolerance, dis, vincinityMap, ret>>
  /\ UNCHANGED ioVars

\* collapse_vertices_, lines 358-411: the vertex looks for vertices to merge
CollapseScan ==
  /\ pc = "collapse"
  /\ i < SoupSize(aSoup)
  /\ cv.collapseMap[i] = Unassigned
  /\ cv' = ScanVertex(cv, vincinityMap, dis, aSoup, aErrorTolerance, i)
  /\ i' = i + 1
  /\ UNCHANGED <<pc, aSoup, aErrorTolerance, dis, vincinityMap, ret>>
  /\ UNCHANGED ioVars

\* collapse_vertices_ returns nextVertex (line 414)
CollapseReturn ==
  /\ pc = "collapse"
  /\ i = SoupSize(aSoup)
  /\ pc' = "shuffle"
  /\ UNCHANGED <<aSoup, aErrorTolerance, dis, vincinityMap, cv, i, ret>>
  /\ UNCHANGED ioVars

\* (mutant: the texcoords are copied without going through the mapping)
ShuffledMesh_TextUnmapped(soup, vertexMapping, indices, verts) ==
  [ vert |-> [s \in 1..verts |-> soup.vert[vertexMapping[s] + 1]],
    text |-> [s \in 1..verts |-> soup.text[s]],
    norm |-> IF soup.norm # <<>>
               THEN [s \in 1..verts |-> soup.norm[vertexMapping[s] + 1]]
               ELSE <<>>,
    indices |-> indices ]

\* make_indexed_mesh, lines 113-133: shuffle vertex data
ShuffledMesh(soup, vertexMapping, indices, verts) ==
  [ vert |-> [s \in 1..verts |-> soup.vert[vertexMapping[s] + 1]],
    text |-> [s \in 1..verts |-> soup.text[vertexMapping[s] + 1]],
    norm |-> IF soup.norm # <<>>
               THEN [s \in 1..verts |-> soup.norm[vertexMapping[s] + 1]]
               ELSE <<>>,
    indices |-> indices ]

\* make_indexed_mesh, lines 135-166: the tangents the tangent-space routine
\* returns for the mesh, one 4-component tangent per unique vertex.  The
\* routine works on the flattened arrays of the mesh; its numbers are not
\* followed, an entry only names the unique vertex it was computed for.
tangents4D(mesh) == [s \in 1..Len(mesh.text) |-> [vertex |-> s - 1]]

\* make_indexed_mesh, lines 135-171: the mesh as it is returned, with its
\* tangents and with bmin, bmax of lines 76-84 as its bounding box
ReturnedMesh(mesh, soup) ==
  [ vert |-> mesh.vert,
    norm |-> mesh.norm,
    text |-> mesh.text,
    tangent |-> tangents4D(mesh),
    indices |-> mesh.indices,
    aabbMin |-> [axis \in 1..3 |-> Exact(BMin(soup)[axis])],
    aabbMax |-> [axis \in 1..3 |->
                   IF axis \in BMaxIsFltMin(soup) THEN FltMin
                   ELSE Exact(BMax(soup)[axis])] ]

ShuffleVertexData ==
  /\ pc = "shuffle"
  /\ ret' = ReturnedMesh(ShuffledMesh(aSoup, cv.aVertices, cv.aIndices, cv.nextVertex),
                         aSoup)
  /\ pc' = "done"
  /\ UNCHANGED <<aSoup, aErrorTolerance, dis, vincinityMap, cv, i>>
  /\ UNCHANGED ioVars

MeshNext ==
  \/ BuildVicinityMap
  \/ CollapseMerged
  \/ CollapseScan
  \/ CollapseReturn
  \/ ShuffleVertexData

\* ------------------------------------------------------------------------
\* The container file: bytes, std::uint32_t, strings
\*
\* A std::uint32_t is kept as its object representation, four bytes with
\* the least significant first (the baker and the renderer run on the same
\* little-endian targets and fwrite / fread copy the object
\* representation).  A float is kept the same way, as four opaque bytes.
\* A std::string is the sequence of its bytes, without the terminator that
\* c_str() adds.
\* ------------------------------------------------------------------------
Byte == 0..255

U32(n) == << n % 256, (n \div 256) % 256, (n \div 65536) % 256,
             (n \div 16777216) % 256 >>

\* the value of a std::uint32_t below 2^31
U32ToNat(b) == b[1] + 256 * b[2] + 65536 * b[3] + 16777216 * b[4]

\* b < n for a std::uint32_t b and a std::size_t n below 2^16
U32Less(b, n) == b[3] = 0 /\ b[4] = 0 /\ (b[1] + 256 * b[2]) < n

\* ~std::uint32_t(0), 0xffffffff
sentinel == <<255, 255, 255, 255>>

\* "\0\0COMP5822Mmesh" as char[16]
kFileMagic ==
  <<0, 0, 67, 79, 77, 80, 53, 56, 50, 50, 77, 109, 101, 115, 104, 0>>

\* "scsmbil-tan" as char[16]
kFileVariant ==
  <<115, 99, 115, 109, 98, 105, 108, 45, 116, 97, 110, 0, 0, 0, 0, 0>>

kMaxString == 32768

Slash == 47

\* std::string::c_str()
c_str(s) == s \o <<0>>

\* std::strlen
RECURSIVE strlenFrom(_, _)
strlenFrom(c, k) == IF c[k] = 0 THEN k - 1 ELSE strlenFrom(c, k + 1)

strlen(c) == strlenFrom(c, 1)

\* std::strrchr( s, '/' ): the position of the last '/', 0 when there is none
strrchr(s) ==
  LET at == {k \in 1..Len(s) : s[k] = Slash}
  IN IF at = {} THEN 0 ELSE CHOOSE k \in at : \A m \in at : m <= k

\* std::filesystem::path::filename() on a POSIX path
filename(s) == SubSeq(s, strrchr(s) + 1, Len(s))

\* the concatenation of a sequence of byte sequences
RECURSIVE Flatten(_)
Flatten(ss) == IF ss = <<>> THEN <<>> ELSE Head(ss) \o Flatten(Tail(ss))

\* ------------------------------------------------------------------------
\* Inputs of the baker's output stage
\* ------------------------------------------------------------------------
MaxMaterials == 1
MaxMeshes == 1
MaxVerts == 1

\* the texture files an .mtl may name, as load_wavefront_obj stores them:
\* "s/a", "s/r", "s/m", "s/n", and "t/a", a file of the name of "s/a" in
\* another directory
TexA == <<115, Slash, 97>>
TexR == <<115, Slash, 114>>
TexM == <<115, Slash, 109>>
TexN == <<115, Slash, 110>>
TexB == <<116, Slash, 97>>

\* InputMaterialInfo: each of the five paths is set or left empty
\* (load_model_obj.cpp lines 55-67)
InputMaterials ==
  [ baseColorTexturePath : {<<>>, TexA},
    roughnessTexturePath : {<<>>, TexR},
    metalnessTexturePath : {<<>>, TexM},
    alphaMaskTexturePath : {<<>>, TexA},
    normalMapTexturePath : {<<>>, TexN, TexB} ]

SeqsUpTo(S, n) == UNION {[1..k -> S] : k \in 0..n}

\* InputModel: the materials, and meshes that name one of them
InputModels ==
  UNION { { [materials |-> ms, meshes |-> hs] :
              hs \in SeqsUpTo([materialIndex : 0..(Len(ms) - 1)], MaxMeshes) } :
          ms \in SeqsUpTo(InputMaterials, MaxMaterials) }

\* a float, told apart by vertex, attribute and component
Float(v, a, c) == <<c, a, v, 63>>

\* an IndexedMesh as make_indexed_mesh returns it for a soup with normals:
\* one entry per unique vertex in vert, norm, text and tangent
IndexedMeshOf(verts) ==
  [ vert |-> [v \in 1..verts |-> <<Float(v, 1, 1), Float(v, 1, 2), Float(v, 1, 3)>>],
    norm |-> [v \in 1..verts |-> <<Float(v, 2, 1), Float(v, 2, 2), Float(v, 2, 3)>>],
    text |-> [v \in 1..verts |-> <<Float(v, 3, 1), Float(v, 3, 2)>>],
    tangent |-> [v \in 1..verts |->
                   <<Float(v, 4, 1), Float(v, 4, 2), Float(v, 4, 3), Float(v, 4, 4)>>],
    indices |-> [k \in 1..3 |-> U32((k - 1) % verts)] ]

IndexedMeshes == {IndexedMeshOf(verts) : verts \in 1..MaxVerts}

\* "o/m.comp5822mesh" and "m.comp5822mesh"
BareName ==
  <<109, 46, 99, 111, 109, 112, 53, 56, 50, 50, 109, 101, 115, 104>>

ModelPaths == {<<111, Slash>> \o BareName, BareName}

\* ------------------------------------------------------------------------
\* cw2-bake/main.cpp: the unique textures
\* ------------------------------------------------------------------------
\* add_unique_, lines 366-379
add_unique_(u, aPath, aChannels) ==
  IF aPath = <<>> \/ aPath \in DOMAIN u.unique
    THEN u
    ELSE [ unique |-> u.unique @@
                      (aPath :> [uniqueId |-> u.texid, channels |-> aChannels,
                                 newPath |-> <<>>]),
           texid |-> u.texid + 1 ]

\* the body of the loop over the materials, lines 383-387
AddMaterial(u, mat) ==
  add_unique_(
    add_unique_(
      add_unique_(
        add_unique_(
          add_unique_(u, mat.baseColorTexturePath, 4),
          mat.roughnessTexturePath, 1),
        mat.metalnessTexturePath, 1),
      mat.alphaMaskTexturePath, 4),
    mat.normalMapTexturePath, 4)

RECURSIVE AddMaterials(_, _)
AddMaterials(u, mats) ==
  IF mats = <<>> THEN u ELSE AddMaterials(AddMaterial(u, Head(mats)), Tail(mats))

find_unique_textures_(model) ==
  AddMaterials([unique |-> <<>>, texid |-> 0], model.materials).unique

\* std::filesystem::path::stem() of a POSIX path with one extension
stem(path) ==
  LET name == filename(path)
      dots == {k \in 2..Len(name) : name[k] = 46}
  IN IF dots = {} THEN name
     ELSE SubSeq(name, 1, (CHOOSE k \in dots : \A m \in dots : m <= k) - 1)

\* process_model_, line 110: basename.string() + "-tex"
texdir(aOutput) == stem(aOutput) \o <<45, 116, 101, 120>>

new_paths_(textures, aTexDir) ==
  [ p \in DOMAIN textures |->
      [textures[p] EXCEPT !.newPath = aTexDir \o <<Slash>> \o filename(p)] ]

\* ------------------------------------------------------------------------
\* cw2-bake/main.cpp: write_model_data_
\* Each operator returns the bytes that its checked_write_ calls append to
\* the file, in order.
\* ------------------------------------------------------------------------
\* write_string_, lines 206-216; aString is a C string
write_string_(aString) ==
  LET length == strlen(aString) + 1
  IN U32(length) \o SubSeq(aString, 1, length)

\* lines 233-238: the textures in the order of their uniqueId
orderedUnqiue(textures) ==
  [ k \in 1..Cardinality(DOMAIN textures) |->
      textures[CHOOSE p \in DOMAIN textures : textures[p].uniqueId = k - 1] ]

\* lines 240-250
WriteTextures(textures) ==
  LET ordered == orderedUnqiue(textures)
  IN U32(Len(ordered)) \o
     Flatten([ k \in 1..Len(ordered) |->
                 write_string_(c_str(ordered[k].newPath)) \o
                 <<ordered[k].channels>> ])

\* write_tex_ without the early return for an empty path: the lookup that
\* finds nothing yields index 0
write_tex_NoSentinel(textures, aTexturePath) ==
  IF aTexturePath = <<>>
    THEN U32(0)
    ELSE U32(textures[aTexturePath].uniqueId)

\* write_tex_, lines 267-279
write_tex_(textures, aTexturePath) ==
  IF aTexturePath = <<>>
    THEN sentinel
    ELSE U32(textures[aTexturePath].uniqueId)

\* lines 262-286
WriteMaterials(model, textures) ==
  U32(Len(model.materials)) \o
  Flatten([ k \in 1..Len(model.materials) |->
              write_tex_(textures, model.materials[k].baseColorTexturePath) \o
              write_tex_(textures, model.materials[k].roughnessTexturePath) \o
              write_tex_(textures, model.materials[k].metalnessTexturePath) \o
              write_tex_(textures, model.materials[k].alphaMaskTexturePath) \o
              write_tex_(textures, model.materials[k].normalMapTexturePath) ])

\* the bytes of a std::vector of glm vectors: the floats of every element
VecBytes(vs) == Flatten([k \in 1..Len(vs) |-> Flatten(vs[k])])

\* lines 299-323
WriteMeshes(model, indexed) ==
  U32(Len(model.meshes)) \o
  Flatten([ k \in 1..Len(model.meshes) |->
              U32(model.meshes[k].materialIndex) \o
              U32(Len(indexed[k].vert)) \o
              U32(Len(indexed[k].indices)) \o
              VecBytes(indexed[k].vert) \o
              VecBytes(indexed[k].norm) \o
              VecBytes(indexed[k].text) \o
              VecBytes(indexed[k].tangent) \o
              Flatten(indexed[k].indices) ])

write_model_data_(model, indexed, textures) ==
  kFileMagic \o kFileVariant \o
  WriteTextures(textures) \o
  WriteMaterials(model, textures) \o
  WriteMeshes(model, indexed)

\* the aData of every checked_write_ call that write_model_data_ makes, in
\* the order of the calls (lines 225-322, write_string_ lines 213-215)
WriteCalls(model, indexed, textures) ==
  LET ordered == orderedUnqiue(textures)
  IN <<kFileMagic, kFileVariant, U32(Len(ordered))>> \o
     Flatten([ k \in 1..Len(ordered) |->
                 LET aString == c_str(ordered[k].newPath)
                     length == strlen(aString) + 1
                 IN << U32(length), SubSeq(aString, 1, length),
                       <<ordered[k].channels>> >> ]) \o
     <<U32(Len(model.materials))>> \o
     Flatten([ k \in 1..Len(model.materials) |->
                 << write_tex_(textures, model.materials[k].baseColorTexturePath),
                    write_tex_(textures, model.materials[k].roughnessTexturePath),
                    write_tex_(textures, model.materials[k].metalnessTexturePath),
                    write_tex_(textures, model.materials[k].alphaMaskTexturePath),
                    write_tex_(textures, model.materials[k].normalMapTexturePath) >> ]) \o
     <<U32(Len(model.meshes))>> \o
     Flatten([ k \in 1..Len(model.meshes) |->
                 << U32(model.meshes[k].materialIndex),
                    U32(Len(indexed[k].vert)),
                    U32(Len(indexed[k].indices)),
                    VecBytes(indexed[k].vert),
                    VecBytes(indexed[k].norm),
                    VecBytes(indexed[k].text),
                    VecBytes(indexed[k].tangent),
                    Flatten(indexed[k].indices) >> ])

\* ------------------------------------------------------------------------
\* cw2/baked_model.cpp: the reading primitives
\* A stream st is [pos, reads]: the file position, and the position each
\* checked_read_ call made so far left the file at.  Each primitive returns
\* [ok, data, fin]: whether it returned normally (FALSE: it threw
\* lut::Error), what it read, and the stream afterwards.
\* ------------------------------------------------------------------------
\* checked_read_, lines 42-48: fread delivers what the file still holds
checked_read_(f, st, aBytes) ==
  LET last == Min(st.pos + aBytes, Len(f))
  IN [ ok |-> last - st.pos = aBytes,
       data |-> SubSeq(f, st.pos + 1, last),
       fin |-> [pos |-> last, reads |-> Append(st.reads, last)] ]

\* read_uint32_, lines 50-55
read_uint32_(f, st) == checked_read_(f, st, 4)

\* read_string_, lines 56-68: the std::string is resized to the stored
\* length and filled with that many bytes of the file
read_string_(f, st) ==
  LET length == read_uint32_(f, st)
  IN IF ~length.ok \/ ~U32Less(length.data, kMaxString)
       THEN [ok |-> FALSE, data |-> <<>>, fin |-> length.fin]
       ELSE checked_read_(f, length.fin, U32ToNat(length.data))

\* ------------------------------------------------------------------------
\* cw2/baked_model.cpp: load_baked_model_
\* A load ld is [status, fin, textures, materials, meshes]; status is "ok"
\* while the function runs, "error" once it has thrown lut::Error and
\* "abort" once an assert() has failed.
\* ------------------------------------------------------------------------
Thrown(ld, st) == [ld EXCEPT !.status = "error", !.fin = st]

\* lines 75-81: the path up to and including its last '/'
Prefix(aInputName) == SubSeq(aInputName, 1, strrchr(aInputName))

\* lines 98-108, count textures still to read
RECURSIVE ReadTextures(_, _, _, _)
ReadTextures(f, prefix, ld, count) ==
  IF count = 0 THEN ld
  ELSE LET path == read_string_(f, ld.fin)
           channels == checked_read_(f, path.fin, 1)
       IN IF ~path.ok THEN Thrown(ld, path.fin)
          ELSE IF ~channels.ok THEN Thrown(ld, channels.fin)
          ELSE ReadTextures(f, prefix,
                 [ld EXCEPT !.fin = channels.fin,
                            !.textures = Append(@, [path |-> prefix \o path.data,
                                                    channels |-> channels.data[1]])],
                 count - 1)

\* lines 115-119: five read_uint32_ calls; ids holds those that returned
RECURSIVE ReadIds(_, _, _, _)
ReadIds(f, st, ids, count) ==
  IF count = 0 THEN [ok |-> TRUE, data |-> ids, fin |-> st]
  ELSE LET id == read_uint32_(f, st)
       IN IF ~id.ok THEN [ok |-> FALSE, data |-> ids, fin |-> id.fin]
          ELSE ReadIds(f, id.fin, Append(ids, id.data), count - 1)

MaterialInfo(ids) ==
  [ baseColorTextureId |-> ids[1], roughnessTextureId |-> ids[2],
    metalnessTextureId |-> ids[3], alphaMaskTextureId |-> ids[4],
    normalMapTextureId |-> ids[5] ]

\* lines 121-123
MaterialAsserts(info, textures) ==
  /\ U32Less(info.baseColorTextureId, Len(textures))
  /\ U32Less(info.roughnessTextureId, Len(textures))
  /\ U32Less(info.metalnessTextureId, Len(textures))

\* lines 112-126, count materials still to read
RECURSIVE ReadMaterials(_, _, _, _)
ReadMaterials(f, ndebug, ld, count) ==
  IF count = 0 THEN ld
  ELSE LET ids == ReadIds(f, ld.fin, <<>>, 5)
       IN IF ~ids.ok THEN Thrown(ld, ids.fin)
          ELSE IF ~ndebug /\ ~MaterialAsserts(MaterialInfo(ids.data), ld.textures)
            THEN [ld EXCEPT !.status = "abort", !.fin = ids.fin]
          ELSE ReadMaterials(f, ndebug,
                 [ld EXCEPT !.fin = ids.fin,
                            !.materials = Append(@, MaterialInfo(ids.data))],
                 count - 1)

\* a block of bytes as a std::vector of glm vectors of n floats each
Vecs(bytes, n) ==
  [ k \in 1..(Len(bytes) \div (4 * n)) |->
      [ c \in 1..n |-> SubSeq(bytes, 4 * (n * (k - 1) + c) - 3,
                              4 * (n * (k - 1) + c)) ] ]

\* a block of bytes as a std::vector<std::uint32_t>
Words(bytes) ==
  [k \in 1..(Len(bytes) \div 4) |-> SubSeq(bytes, 4 * k - 3, 4 * k)]

\* lines 132-154: one mesh.  Returns the load with the mesh appended, or
\* with status "error" / "abort"
ReadMesh(f, ndebug, ld) ==
  LET materialId == read_uint32_(f, ld.fin)
      V == read_uint32_(f, materialId.fin)
      I == read_uint32_(f, V.fin)
      positions == checked_read_(f, I.fin, U32ToNat(V.data) * 12)
      normals == checked_read_(f, positions.fin, U32ToNat(V.data) * 12)
      texcoords == checked_read_(f, normals.fin, U32ToNat(V.data) * 8)
      tangents == checked_read_(f, texcoords.fin, U32ToNat(V.data) * 16)
      indices == checked_read_(f, tangents.fin, U32ToNat(I.data) * 4)
  IN IF ~materialId.ok THEN Thrown(ld, materialId.fin)
     ELSE IF ~ndebug /\ ~U32Less(materialId.data, Len(ld.materials))
       THEN [ld EXCEPT !.status = "abort", !.fin = materialId.fin]
     ELSE IF ~V.ok THEN Thrown(ld, V.fin)
     ELSE IF ~I.ok THEN Thrown(ld, I.fin)
     ELSE IF ~positions.ok THEN Thrown(ld, positions.fin)
     ELSE IF ~normals.ok THEN Thrown(ld, normals.fin)
     ELSE IF ~texcoords.ok THEN Thrown(ld, texcoords.fin)
     ELSE IF ~tangents.ok THEN Thrown(ld, tangents.fin)
     ELSE IF ~indices.ok THEN Thrown(ld, indices.fin)
     ELSE [ld EXCEPT
             !.fin = indices.fin,
             !.meshes = Append(@, [ materialId |-> materialId.data,
                                    positions |-> Vecs(positions.data, 3),
                                    texcoords |-> Vecs(texcoords.data, 2),
                                    normals |-> Vecs(normals.data, 3),
                                    tangents |-> Vecs(tangents.data, 4),
                                    indices |-> Words(indices.data) ])]

\* lines 130-155, count meshes still to read
RECURSIVE ReadMeshes(_, _, _, _)
ReadMeshes(f, ndebug, ld, count) ==
  IF count = 0 \/ ld.status # "ok" THEN ld
  ELSE ReadMeshes(f, ndebug, ReadMesh(f, ndebug, ld), count - 1)

\* lines 97-108: the texture count and the textures
TexturesOf(f, prefix, ld) ==
  LET textureCount == read_uint32_(f, ld.fin)
  IN IF ~textureCount.ok THEN Thrown(ld, textureCount.fin)
     ELSE ReadTextures(f, prefix, [ld EXCEPT !.fin = textureCount.fin],
                       U32ToNat(textureCount.data))

\* lines 111-126: the material count and the materials
MaterialsOf(f, ndebug, ld) ==
  LET materialCount == read_uint32_(f, ld.fin)
  IN IF ~materialCount.ok THEN Thrown(ld, materialCount.fin)
     ELSE ReadMaterials(f, ndebug, [ld EXCEPT !.fin = materialCount.fin],
                        U32ToNat(materialCount.data))

\* lines 129-155: the mesh count and the meshes
MeshesOf(f, ndebug, ld) ==
  LET meshCount == read_uint32_(f, ld.fin)
  IN IF ~meshCount.ok THEN Thrown(ld, meshCount.fin)
     ELSE ReadMeshes(f, ndebug, [ld EXCEPT !.fin = meshCount.fin],
                     U32ToNat(meshCount.data))

\* lines 84-155 in one go, for a container with the right header and a
\* build without assert(): the reads the load makes when it runs to its end
ReadsOf(f, prefix) ==
  CHOOSE reads \in
    UNION { { MeshesOf(f, TRUE, m).fin.reads : m \in {MaterialsOf(f, TRUE, t)} } :
            t \in { TexturesOf(f, prefix,
                               [ status |-> "ok",
                                 fin |-> [pos |-> 32, reads |-> <<16, 32>>],
                                 textures |-> <<>>, materials |-> <<>>,
                                 meshes |-> <<>> ]) } } : TRUE

\* ------------------------------------------------------------------------
\* cw2/load_data_to_vk.cpp: the textures and material descriptors of
\* set_up_model.  An image view is named by the position of its Texture in
\* ret.textures (from 1); Garbage is what a subscript past the end of the
\* vector yields when the program survives it.
\* ------------------------------------------------------------------------
Garbage == 0

\* get_texture_format, lines 226-244
get_texture_format(model, textureId) ==
  LET uses(m) == textureId \in { m.baseColorTextureId, m.roughnessTextureId,
                                 m.metalnessTextureId, m.normalMapTextureId }
      hits == {k \in 1..Len(model.materials) : uses(model.materials[k])}
      material == model.materials[CHOOSE k \in hits : \A h \in hits : k <= h]
  IN IF hits = {} THEN "VK_FORMAT_R8G8B8A8_SRGB"
     ELSE IF textureId = material.baseColorTextureId THEN "VK_FORMAT_R8G8B8A8_SRGB"
     ELSE IF textureId \in {material.roughnessTextureId, material.metalnessTextureId}
       THEN "VK_FORMAT_R8_UNORM"
     ELSE "VK_FORMAT_R8G8B8A8_UNORM"

\* lines 136-164 and 184-185: one Texture per texture of the model, loaded
\* from the C string of its path, and the dummy normal map at the back
SetUpTextures(model) ==
  [ k \in 1..Len(model.textures) |->
      [ format |-> get_texture_format(model, U32(k - 1)),
        name |-> SubSeq(model.textures[k].path, 1,
                        strlen(c_str(model.textures[k].path))) ] ]
  \o << [format |-> "VK_FORMAT_R8G8B8A8_UNORM", name |-> <<>>] >>

\* ret.textures[id].view.handle
View(textures, id) ==
  IF U32Less(id, Len(textures)) THEN U32ToNat(id) + 1 ELSE Garbage

\* lines 196-202: the values ret.textures is subscripted with for a material
Subscripts(material) ==
  { material.baseColorTextureId, material.roughnessTextureId,
    material.metalnessTextureId } \cup
  (IF material.normalMapTextureId # sentinel
     THEN {material.normalMapTextureId} ELSE {})

\* lines 196-202: imageInfo[0..3].imageView
ImageViews(textures, material) ==
  << View(textures, material.baseColorTextureId),
     View(textures, material.roughnessTextureId),
     View(textures, material.metalnessTextureId),
     IF material.normalMapTextureId # sentinel
       THEN View(textures, material.normalMapTextureId)
       ELSE Len(textures) >>

\* ------------------------------------------------------------------------
\* The bake / load / set-up pipeline
\* ioPc: "bake" -> "written" [-> "damaged"] -> "textures" -> "materials"
\*       -> "meshes" -> "trailing" -> "loaded" -> "ready" | "crashed",
\*       or "failed" from any step of the load
\* ------------------------------------------------------------------------
EmptyBaked == [textures |-> <<>>, materials |-> <<>>, meshes |-> <<>>]

NoResult == [status |-> "none", model |-> EmptyBaked]

NoPack == [status |-> "none", textures |-> <<>>, views |-> <<>>, subscripts |-> {}]

Opened == [pos |-> 0, reads |-> <<>>]

\* FILE* fof before std::fopen: handle is "null", "open" or "closed", closes
\* counts the std::fclose calls, log holds one [aBytes, ret] per std::fwrite
NoFile == [handle |-> "null", closes |-> 0, log |-> <<>>]

\* std::fclose without effect: the handle stays open
fclose_Leak(f) == f

\* std::fclose( fof ), lines 158 and 162
fclose(f) == [f EXCEPT !.handle = "closed", !.closes = @ + 1]

\* the log of fwrite calls that all returned aBytes
Returned(calls) ==
  [k \in 1..Len(calls) |-> [aBytes |-> Len(calls[k]), ret |-> Len(calls[k])]]

IoInit ==
  /\ ioPc = "bake"
  /\ NDEBUG \in BOOLEAN
  /\ aModel \in InputModels
  /\ aIndexedMeshes \in [1..Len(aModel.meshes) -> IndexedMeshes]
  /\ aTextures = <<>>
  /\ file = <<>>
  /\ aModelPath \in ModelPaths
  /\ fin = Opened
  /\ baked = EmptyBaked
  /\ result = NoResult
  /\ pack = NoPack
  /\ fof = NoFile
  /\ copies = <<>>

\* process_model_, lines 137-162: the unique textures and the container
ProcessModel ==
  /\ ioPc = "bake"
  /\ aTextures' = new_paths_(find_unique_textures_(aModel), texdir(aModelPath))
  /\ file' = write_model_data_(aModel, aIndexedMeshes, aTextures')
  /\ fof' = fclose([ handle |-> "open", closes |-> 0,
                      log |-> Returned(WriteCalls(aModel, aIndexedMeshes, aTextures')) ])
  /\ ioPc' = "written"
  /\ UNCHANGED <<NDEBUG, aModel, aIndexedMeshes, aModelPath, fin, baked, result, pack>>
  /\ UNCHANGED copies
  /\ UNCHANGED meshVars

\* the file reaches the loader cut short
Truncate ==
  /\ ioPc = "written"
  /\ \E n \in 0..(Len(file) - 1) : file' = SubSeq(file, 1, n)
  /\ ioPc' = "damaged"
  /\ UNCHANGED <<NDEBUG, aModel, aIndexedMeshes, aTextures, aModelPath, fin, baked,
                 result, pack>>
  /\ UNCHANGED <<fof, copies>>
  /\ UNCHANGED meshVars

\* "\0\0COMP5822mmesh": a file of another kind
ForeignMagics ==
  { <<0, 0, 67, 79, 77, 80, 53, 56, 50, 50, 109, 109, 101, 115, 104, 0>> }

\* "scsmbil" (an older variant) and "scsmbil-tangents" (16 characters, no
\* terminator)
ForeignVariants ==
  { <<115, 99, 115, 109, 98, 105, 108, 0, 0, 0, 0, 0, 0, 0, 0, 0>>,
    <<115, 99, 115, 109, 98, 105, 108, 45, 116, 97, 110, 103, 101, 110, 116, 115>> }

\* the file the loader is given was written by another program or by
\* another version of the baker
ForeignHeader ==
  /\ ioPc = "written"
  /\ \/ \E magic \in ForeignMagics :
          file' = magic \o SubSeq(file, 17, Len(file))
     \/ \E variant \in ForeignVariants :
          file' = SubSeq(file, 1, 16) \o variant \o SubSeq(file, 33, Len(file))
  /\ ioPc' = "damaged"
  /\ UNCHANGED <<NDEBUG, aModel, aIndexedMeshes, aTextures, aModelPath, fin, baked,
                 result, pack>>
  /\ UNCHANGED <<fof, copies>>
  /\ UNCHANGED meshVars

\* what load_baked_model leaves behind when load_baked_model_ does not
\* return: the FILE is closed, ret is destroyed, the caller gets no model
Fail(status, st) ==
  /\ ioPc' = "failed"
  /\ fin' = st
  /\ baked' = EmptyBaked
  /\ result' = [status |-> status, model |-> EmptyBaked]

\* the load as the variables hold it
Load ==
  [ status |-> "ok", fin |-> fin, textures |-> baked.textures,
    materials |-> baked.materials, meshes |-> baked.meshes ]

\* the load after a step, written back to the variables
Continue(ld, next) ==
  IF ld.status = "ok"
    THEN /\ ioPc' = next
         /\ fin' = ld.fin
         /\ baked' = [ textures |-> ld.textures, materials |-> ld.materials,
                       meshes |-> ld.meshes ]
         /\ UNCHANGED result
    ELSE Fail(ld.status, ld.fin)

\* load_baked_model, lines 23-25: there is no file to open
OpenFails ==
  /\ ioPc = "bake"
  /\ Fail("error", fin)
  /\ UNCHANGED <<NDEBUG, aModel, aIndexedMeshes, aTextures, file, aModelPath, pack>>
  /\ UNCHANGED <<fof, copies>>
  /\ UNCHANGED meshVars

\* line 94 formats variant, a char[16], with %s: when none of its bytes is
\* '\0' the formatting reads past the array (undefined behaviour) and the
\* program either throws with stray bytes in the message or is stopped
FormatOutcomes(variant) ==
  IF \E k \in 1..16 : variant[k] = 0 THEN {"error"} ELSE {"error", "crash"}

\* load_baked_model_, lines 84-94: file magic and variant
LoadHeader ==
  /\ ioPc \in {"written", "damaged"}
  /\ LET magic == checked_read_(file, Opened, 16)
         variant == checked_read_(file, magic.fin, 16)
     IN IF ~magic.ok \/ magic.data # kFileMagic
          THEN Fail("error", magic.fin)
        ELSE IF ~variant.ok
          THEN Fail("error", variant.fin)
        ELSE IF variant.data # kFileVariant
          THEN \E outcome \in FormatOutcomes(variant.data) :
                 Fail(outcome, variant.fin)
        ELSE Continue([Load EXCEPT !.fin = variant.fin], "textures")
  /\ UNCHANGED <<NDEBUG, aModel, aIndexedMeshes, aTextures, file, aModelPath, pack>>
  /\ UNCHANGED <<fof, copies>>
  /\ UNCHANGED meshVars

\* lines 97-108
LoadTextures ==
  /\ ioPc = "textures"
  /\ Continue(TexturesOf(file, Prefix(aModelPath), Load), "materials")
  /\ UNCHANGED <<NDEBUG, aModel, aIndexedMeshes, aTextures, file, aModelPath, pack>>
  /\ UNCHANGED <<fof, copies>>
  /\ UNCHANGED meshVars

\* lines 111-126
LoadMaterials ==
  /\ ioPc = "materials"
  /\ Continue(MaterialsOf(file, NDEBUG, Load), "meshes")
  /\ UNCHANGED <<NDEBUG, aModel, aIndexedMeshes, aTextures, file, aModelPath, pack>>
  /\ UNCHANGED <<fof, copies>>
  /\ UNCHANGED meshVars

\* lines 129-155
LoadMeshes ==
  /\ ioPc = "meshes"
  /\ Continue(MeshesOf(file, NDEBUG, Load), "trailing")
  /\ UNCHANGED <<NDEBUG, aModel, aIndexedMeshes, aTextures, file, aModelPath, pack>>
  /\ UNCHANGED <<fof, copies>>
  /\ UNCHANGED meshVars

\* lines 158-164 and load_baked_model, lines 29-31: the check for trailing
\* bytes only prints a note; ret goes to the caller
LoadReturn ==
  /\ ioPc = "trailing"
  /\ fin' = [fin EXCEPT !.pos = Min(fin.pos + 1, Len(file))]
  /\ result' = [status |-> "returned", model |-> baked]
  /\ ioPc' = "loaded"
  /\ UNCHANGED <<NDEBUG, aModel, aIndexedMeshes, aTextures, file, aModelPath, baked,
                 pack>>
  /\ UNCHANGED <<fof, copies>>
  /\ UNCHANGED meshVars

\* set_up_model, lines 136-218: the textures and the descriptors of the
\* materials.  A subscript past the end of ret.textures is undefined
\* behaviour: the program is stopped, or goes on with whatever it read
SetUpModel ==
  /\ ioPc = "loaded"
  /\ LET model == result.model
         textures == SetUpTextures(model)
         subscripts == UNION {Subscripts(model.materials[k]) :
                                k \in 1..Len(model.materials)}
         inRange == \A id \in subscripts : U32Less(id, Len(textures))
     IN \E status \in (IF inRange THEN {"ok"} ELSE {"ok", "crash"}) :
          /\ pack' = [ status |-> status,
                       textures |-> textures,
                       views |-> [k \in 1..Len(model.materials) |->
                                    ImageViews(textures, model.materials[k])],
                       subscripts |-> subscripts ]
          /\ ioPc' = IF status = "ok" THEN "ready" ELSE "crashed"
  /\ UNCHANGED <<NDEBUG, aModel, aIndexedMeshes, aTextures, file, aModelPath, fin,
                 baked, result>>
  /\ UNCHANGED <<fof, copies>>
  /\ UNCHANGED meshVars

IoNext ==
  \/ ProcessModel
  \/ Truncate
  \/ ForeignHeader
  \/ OpenFails
  \/ LoadHeader
  \/ LoadTextures
  \/ LoadMaterials
  \/ LoadMeshes
  \/ LoadReturn
  \/ SetUpModel

\* the output stage at rest, while make_indexed_mesh is looked at alone
IoIdle ==
  /\ ioPc = "idle"
  /\ NDEBUG = FALSE
  /\ aModel = [materials |-> <<>>, meshes |-> <<>>]
  /\ aIndexedMeshes = <<>>
  /\ aTextures = <<>>
  /\ file = <<>>
  /\ aModelPath = BareName
  /\ fin = Opened
  /\ baked = EmptyBaked
  /\ result = NoResult
  /\ pack = NoPack
  /\ fof = NoFile
  /\ copies = <<>>

\* make_indexed_mesh at rest, while the output stage is looked at alone
MeshIdle ==
  /\ pc = "idle"
  /\ aSoup = MakeSoup(<<>>, FALSE)
  /\ aErrorTolerance = 0
  /\ dis = NoDiscretizer
  /\ vincinityMap = {}
  /\ cv = CollapseStart(0)
  /\ i = 0
  /\ ret = EmptyMesh

vars == <<meshVars, ioVars>>
Init == MeshInit /\ IoIdle
Next == MeshNext
Spec == Init /\ [][Next]_vars

IoSpecInit == MeshIdle /\ IoInit
SpecIO == IoSpecInit /\ [][IoNext]_vars

\* ------------------------------------------------------------------------
\* cw2-bake/main.cpp: process_model_ call by call
\* ioPc is "bake" before std::fopen, "writing" inside write_model_data_,
\* "caught" in the catch block, "thrown" once process_model_ has left with
\* an exception, "copy" in the loop over the textures, "baked" at its end.
\* ------------------------------------------------------------------------
\* lines 137-151: the unique textures, then std::fopen( ..., "wb" ), which
\* returns a stream on an empty file or a null pointer
Fopen ==
  /\ ioPc = "bake"
  /\ aTextures' = new_paths_(find_unique_textures_(aModel), texdir(aModelPath))
  /\ \/ /\ fof' = [fof EXCEPT !.handle = "open"]
        /\ file' = <<>>
        /\ ioPc' = "writing"
     \/ /\ UNCHANGED <<fof, file>>
        /\ ioPc' = "thrown"
  /\ UNCHANGED <<NDEBUG, aModel, aIndexedMeshes, aModelPath, fin, baked, result,
                 pack, copies>>
  /\ UNCHANGED meshVars

\* checked_write_, lines 198-204, for the next call of write_model_data_:
\* std::fwrite appends count of the aBytes bytes and returns count, and a
\* return value that is not aBytes throws
CheckedWrite ==
  /\ ioPc = "writing"
  /\ LET calls == WriteCalls(aModel, aIndexedMeshes, aTextures)
     IN /\ Len(fof.log) < Len(calls)
        /\ LET aData == calls[Len(fof.log) + 1]
           IN \E count \in 0..Len(aData) :
                /\ file' = file \o SubSeq(aData, 1, count)
                /\ fof' = [fof EXCEPT !.log = Append(@, [aBytes |-> Len(aData),
                                                         ret |-> count])]
                /\ ioPc' = IF count = Len(aData) THEN "writing" ELSE "caught"
  /\ UNCHANGED <<NDEBUG, aModel, aIndexedMeshes, aTextures, aModelPath, fin, baked,
                 result, pack, copies>>
  /\ UNCHANGED meshVars

\* lines 156-160: catch( ... ) { std::fclose( fof ); throw; }
Catch ==
  /\ ioPc = "caught"
  /\ fof' = fclose(fof)
  /\ ioPc' = "thrown"
  /\ UNCHANGED <<NDEBUG, aModel, aIndexedMeshes, aTextures, file, aModelPath, fin,
                 baked, result, pack, copies>>
  /\ UNCHANGED meshVars

\* line 162: write_model_data_ has returned
Fclose ==
  /\ ioPc = "writing"
  /\ Len(fof.log) = Len(WriteCalls(aModel, aIndexedMeshes, aTextures))
  /\ fof' = fclose(fof)
  /\ ioPc' = "copy"
  /\ UNCHANGED <<NDEBUG, aModel, aIndexedMeshes, aTextures, file, aModelPath, fin,
                 baked, result, pack, copies>>
  /\ UNCHANGED meshVars

\* the texture files a copy_file call of this run has created
Copied == {copies[k].to : k \in {j \in 1..Len(copies) : copies[j].ret}}

\* lines 168-184: one iteration of the loop over the unordered_map, whose
\* order is unspecified.  copy_file with copy_options::none into a texture
\* directory that starts empty fails when the destination exists
CopyFile ==
  /\ ioPc = "copy"
  /\ \E p \in DOMAIN aTextures \ {copies[k].from : k \in 1..Len(copies)} :
       copies' = Append(copies, [ from |-> p, to |-> aTextures[p].newPath,
                                  ret |-> aTextures[p].newPath \notin Copied ])
  /\ UNCHANGED <<ioPc, NDEBUG, aModel, aIndexedMeshes, aTextures, file, aModelPath,
                 fin, baked, result, pack, fof>>
  /\ UNCHANGED meshVars

\* lines 187-192: the loop has ended
CopyReturn ==
  /\ ioPc = "copy"
  /\ Len(copies) = Cardinality(DOMAIN aTextures)
  /\ ioPc' = "baked"
  /\ UNCHANGED <<NDEBUG, aModel, aIndexedMeshes, aTextures, file, aModelPath, fin,
                 baked, result, pack, fof, copies>>
  /\ UNCHANGED meshVars

BakeNext ==
  \/ Fopen
  \/ CheckedWrite
  \/ Catch
  \/ Fclose
  \/ CopyFile
  \/ CopyReturn

SpecBake == IoSpecInit /\ [][BakeNext]_vars

\* ------------------------------------------------------------------------
\* Properties of make_indexed_mesh / collapse_vertices_
\* ------------------------------------------------------------------------
Collapsing == pc \in {"collapse", "shuffle", "done"}
Collapsed == pc \in {"shuffle", "done"}

\* original vertices a and b agree within the call's tolerance on every
\* component of position, of normal (when the soup has normals) and of
\* texcoord
Mergeable(a, b) ==
  /\ \A k \in 1..3 : Abs(aSoup.vert[a + 1][k] - aSoup.vert[b + 1][k]) <= aErrorTolerance
  /\ \A k \in 1..2 : Abs(aSoup.text[a + 1][k] - aSoup.text[b + 1][k]) <= aErrorTolerance
  /\ aSoup.norm # <<>> =>
       \A k \in 1..3 : Abs(aSoup.norm[a + 1][k] - aSoup.norm[b + 1][k]) <= aErrorTolerance

\* the slot the index buffer holds for original vertex v, and the
\* representative the vertex mapping holds for slot s
SlotOf(v) == cv.aIndices[v + 1]
RepOf(s) == cv.aVertices[s + 1]

\* C1: the index buffer has one entry per soup corner and every entry is below
\* the number of slots allocated (= the length of the vertex mapping); during
\* the merge loop the same holds of the indices emitted so far against the
\* slots allocated so far.
C1_IndexValidity ==
  /\ Collapsing =>
       /\ Len(cv.aIndices) = i
       /\ cv.nextVertex = Len(cv.aVertices)
       /\ \A k \in 1..Len(cv.aIndices) :
            cv.aIndices[k] >= 0 /\ cv.aIndices[k] < cv.nextVertex
  /\ Collapsed => Len(cv.aIndices) = SoupSize(aSoup)
  /\ pc = "done" =>
       /\ Len(ret.indices) = SoupSize(aSoup)
       /\ \A k \in 1..Len(ret.indices) :
            ret.indices[k] >= 0 /\ ret.indices[k] < Len(ret.vert)

\* a finished mesh in which two corners were welded and one was not
C1_Witness ==
  /\ pc = "done"
  /\ Len(ret.vert) = 2
  /\ Len(ret.indices) = 3

\* C2 (as claimed): with a positive tolerance, any two original vertices that
\* agree within the tolerance on every component reference the same slot.
C2_Original ==
  (pc = "done" /\ aErrorTolerance > 0) =>
    \A a, b \in VertexIds(aSoup) :
      Mergeable(a, b) => ret.indices[a + 1] = ret.indices[b + 1]

\* C2 (amended): with a positive tolerance, two original vertices a < b that
\* agree within the tolerance reference the same slot unless one of them was
\* already merged into the slot of an earlier vertex: when a is the
\* representative of its slot, b references a's slot or the slot of a
\* representative that precedes a.
C2_MergeUnlessTaken ==
  (pc = "done" /\ aErrorTolerance > 0) =>
    \A a, b \in VertexIds(aSoup) :
      (a < b /\ Mergeable(a, b) /\ RepOf(ret.indices[a + 1]) = a) =>
        \/ ret.indices[b + 1] = ret.indices[a + 1]
        \/ RepOf(ret.indices[b + 1]) < a

\* two vertices within the tolerance of each other, in different cells of the
\* grid, welded by the representative's scan
C2_Witness ==
  /\ pc = "done"
  /\ aErrorTolerance > 0
  /\ \E a, b \in VertexIds(aSoup) :
       /\ a < b
       /\ Mergeable(a, b)
       /\ RepOf(ret.indices[a + 1]) = a
       /\ ret.indices[b + 1] = ret.indices[a + 1]
       /\ discretize(dis, aSoup.vert[a + 1]) # discretize(dis, aSoup.vert[b + 1])

\* C3 (as claimed): two original vertices that differ by more than the
\* tolerance in some component are never mapped to the same slot.
C3_Original ==
  pc = "done" =>
    \A a, b \in VertexIds(aSoup) :
      ~Mergeable(a, b) => ret.indices[a + 1] # ret.indices[b + 1]

\* C3 (amended): two original vertices that differ by more than the tolerance
\* in some component are mapped to the same slot only when both are merge
\* targets of a third vertex, the slot's representative, and each is within
\* the tolerance of that representative; a vertex is never mapped to the slot
\* of a representative it differs from by more than the tolerance.
C3_SplitUnlessBridged ==
  pc = "done" =>
    \A a, b \in VertexIds(aSoup) :
      (~Mergeable(a, b) /\ ret.indices[a + 1] = ret.indices[b + 1]) =>
        LET r == RepOf(ret.indices[a + 1])
        IN  r # a /\ r # b /\ Mergeable(r, a) /\ Mergeable(r, b)

\* co-located corners on the two sides of a seam, kept apart
C3_Witness ==
  /\ pc = "done"
  /\ \E a, b \in VertexIds(aSoup) :
       /\ aSoup.vert[a + 1] = aSoup.vert[b + 1]
       /\ ~Mergeable(a, b)
       /\ ret.indices[a + 1] # ret.indices[b + 1]

\* C4: every unique vertex of the result carries exactly the position, the
\* texcoord and (when the soup has normals) the normal of the original vertex
\* the vertex mapping names for its slot.
C4_AttributeCoherence ==
  pc = "done" =>
    /\ Len(ret.vert) = cv.nextVertex
    /\ Len(ret.text) = cv.nextVertex
    /\ Len(ret.norm) = (IF aSoup.norm = <<>> THEN 0 ELSE cv.nextVertex)
    /\ \A s \in 0..(cv.nextVertex - 1) :
         /\ ret.vert[s + 1] = aSoup.vert[RepOf(s) + 1]
         /\ ret.text[s + 1] = aSoup.text[RepOf(s) + 1]
         /\ aSoup.norm # <<>> => ret.norm[s + 1] = aSoup.norm[RepOf(s) + 1]

\* a slot whose representative is not the vertex of the same number and whose
\* group has a member with another texcoord position
C4_Witness ==
  /\ pc = "done"
  /\ \E s \in 0..(cv.nextVertex - 1) :
       /\ RepOf(s) # s
       /\ aSoup.text[RepOf(s) + 1] # aSoup.text[s + 1]
       /\ aSoup.norm # <<>>
       /\ aSoup.norm[RepOf(s) + 1] # aSoup.norm[s + 1]

\* C5: when collapse_vertices_ finishes every original vertex has been
\* assigned to exactly one slot by exactly one store into the collapse map,
\* either as the representative that opened the slot or as a merge target of
\* that representative; the count returned is the number of slots allocated
\* and the length of the vertex mapping, and no slot has two representatives.
C5_AssignedOnce ==
  /\ Collapsing => \A v \in VertexIds(aSoup) : cv.writes[v] <= 1
  /\ Collapsed =>
       /\ cv.nextVertex = Len(cv.aVertices)
       /\ \A s, t \in 0..(cv.nextVertex - 1) : RepOf(s) = RepOf(t) => s = t
       /\ \A v \in VertexIds(aSoup) :
            /\ cv.writes[v] = 1
            /\ cv.collapseMap[v] \in 0..(cv.nextVertex - 1)
            /\ \/ RepOf(cv.collapseMap[v]) = v
               \/ /\ RepOf(cv.collapseMap[v]) < v
                  /\ Mergeable(RepOf(cv.collapseMap[v]), v)

\* a finished merge with a representative and a merge target of it
C5_Witness ==
  /\ pc = "shuffle"
  /\ \E v \in VertexIds(aSoup) :
       /\ RepOf(cv.collapseMap[v]) # v
       /\ cv.writes[v] = 1

\* ------------------------------------------------------------------------
\* Properties of the container file: write_model_data_, load_baked_model,
\* set_up_model
\* ------------------------------------------------------------------------
\* the container as the baker wrote it
Intact == write_model_data_(aModel, aIndexedMeshes, aTextures)

\* load_baked_model has been called on a file and has ended
LoadEnded ==
  \/ ioPc \in {"loaded", "ready", "crashed"}
  \/ ioPc = "failed" /\ fin.reads # <<>>

\* the index the baker stores for a texture path
ExpectedId(path) ==
  IF path = <<>> THEN sentinel ELSE U32(aTextures[path].uniqueId)

ExpectedMaterial(mat) ==
  [ baseColorTextureId |-> ExpectedId(mat.baseColorTexturePath),
    roughnessTextureId |-> ExpectedId(mat.roughnessTexturePath),
    metalnessTextureId |-> ExpectedId(mat.metalnessTexturePath),
    alphaMaskTextureId |-> ExpectedId(mat.alphaMaskTexturePath),
    normalMapTextureId |-> ExpectedId(mat.normalMapTexturePath) ]

ExpectedMesh(k) ==
  [ materialId |-> U32(aModel.meshes[k].materialIndex),
    positions |-> aIndexedMeshes[k].vert,
    texcoords |-> aIndexedMeshes[k].text,
    normals |-> aIndexedMeshes[k].norm,
    tangents |-> aIndexedMeshes[k].tangent,
    indices |-> aIndexedMeshes[k].indices ]

\* C6: for every model, with any of the five texture slots of a material
\* present or absent, loading the file that write_model_data_ wrote
\* succeeds and yields the same material table and, for every mesh, the
\* same material index and identical position, normal, texcoord, tangent
\* and index arrays.
C6_RoundTrip ==
  (LoadEnded /\ file = Intact) =>
    /\ result.status = "returned"
    /\ result.model.materials =
         [k \in 1..Len(aModel.materials) |-> ExpectedMaterial(aModel.materials[k])]
    /\ result.model.meshes = [k \in 1..Len(aModel.meshes) |-> ExpectedMesh(k)]

\* C7: every loaded texture path is the directory prefix of the container
\* followed by exactly the bytes of the path that was serialized, of the
\* same length, and the channel count is unchanged.
C7_PathBytes ==
  result.status = "returned" =>
    /\ Len(result.model.textures) = Cardinality(DOMAIN aTextures)
    /\ \A p \in DOMAIN aTextures :
         LET loaded == result.model.textures[aTextures[p].uniqueId + 1]
         IN /\ loaded.path = Prefix(aModelPath) \o aTextures[p].newPath
            /\ Len(loaded.path) = Len(Prefix(aModelPath)) + Len(aTextures[p].newPath)
            /\ loaded.channels = aTextures[p].channels

\* where the file holds texture index number slot of material k
IdOffset(k, slot) ==
  32 + Len(WriteTextures(aTextures)) + 4 + 20 * (k - 1) + 4 * (slot - 1)

WrittenId(k, slot) == SubSeq(file, IdOffset(k, slot) + 1, IdOffset(k, slot) + 4)

\* C8: a material whose normal-map path is empty is written with normal-map
\* index 0xFFFFFFFF and load_baked_model returns that material with
\* normalMapTextureId 0xFFFFFFFF; the same holds for an absent alpha mask.
C8_SentinelRoundTrip ==
  \A k \in 1..Len(aModel.materials) :
    /\ aModel.materials[k].normalMapTexturePath = <<>> =>
         /\ ioPc = "written" => WrittenId(k, 5) = sentinel
         /\ (LoadEnded /\ file = Intact) =>
              /\ result.status = "returned"
              /\ result.model.materials[k].normalMapTextureId = sentinel
    /\ aModel.materials[k].alphaMaskTexturePath = <<>> =>
         /\ ioPc = "written" => WrittenId(k, 4) = sentinel
         /\ (LoadEnded /\ file = Intact) =>
              /\ result.status = "returned"
              /\ result.model.materials[k].alphaMaskTextureId = sentinel

\* the reads of a load of the intact container
IntactReads == CHOOSE reads \in {ReadsOf(f, Prefix(aModelPath)) : f \in {Intact}} : TRUE

\* of the reads of the intact container, those up to the first one that
\* reaches past len, each cut off at len
UpToFirstPast(reads, len) ==
  LET past == {k \in 1..Len(reads) : reads[k] > len}
      first == CHOOSE k \in past : \A m \in past : k <= m
  IN [k \in 1..first |-> Min(reads[k], len)]

\* the reads up to and including the first one that the file on disk
\* cannot satisfy: the magic or the variant when it differs, else the first
\* read that reaches past the end of the file
ReadsToFirstOffence ==
  IF SubSeq(file, 1, Min(16, Len(file))) # kFileMagic
    THEN << Min(16, Len(file)) >>
  ELSE IF SubSeq(file, 17, Min(32, Len(file))) # kFileVariant
    THEN << 16, Min(32, Len(file)) >>
  ELSE CHOOSE r \in {UpToFirstPast(reads, Len(file)) : reads \in {IntactReads}} : TRUE

\* C9: when the magic differs, the variant differs or the file ends before
\* a declared field has been read in full, load_baked_model fails with an
\* error and returns no BakedModel; the failure is detected at the first
\* offending read and nothing is read after it.
C9_FailsAtFirstOffence ==
  (ioPc \notin {"bake", "written", "damaged"} /\ fin.reads # <<>> /\ file # Intact) =>
    /\ ioPc \notin {"loaded", "ready", "crashed"}
    /\ result.model = EmptyBaked
    /\ ioPc = "failed" =>
         /\ result.status = "error"
         /\ fin.reads = ReadsToFirstOffence

\* C10: loading and setting up a model in which any of the five texture
\* indices is 0xFFFFFFFF never uses that value as an index into the texture
\* table and never fails because of it.
C10_SentinelIsNoTexture ==
  /\ result.status # "abort"
  /\ ioPc \in {"ready", "crashed"} =>
       /\ sentinel \notin pack.subscripts
       /\ pack.status = "ok"

\* ------------------------------------------------------------------------
\* make_indexed_mesh on closed shapes: a unit cube and two triangles that
\* share an edge
\* ------------------------------------------------------------------------
\* the number of fixed-point units in 1.0: a tolerance of 1e-4 is one unit
UnitsPerOne == 10000
\* the triangle orders of a cube soup start at triangle 0..MaxShift
MaxShift == 3

\* the twelve triangles of a cube, two per face, by the numbers x + 2y + 4z
\* of their corners
CubeTriangles ==
  << <<0, 1, 3>>, <<0, 3, 2>>, <<4, 5, 7>>, <<4, 7, 6>>,
     <<0, 1, 5>>, <<0, 5, 4>>, <<2, 3, 7>>, <<2, 7, 6>>,
     <<0, 2, 6>>, <<0, 6, 4>>, <<1, 3, 7>>, <<1, 7, 5>> >>

\* corner v of the unit cube whose least corner is at (o, o, o): its
\* position, and the one normal and the one texcoord every occurrence of the
\* position carries
CubeCorner(v, o) ==
  [ vert |-> << o + UnitsPerOne * (v % 2),
                o + UnitsPerOne * ((v \div 2) % 2),
                o + UnitsPerOne * (v \div 4) >>,
    norm |-> << (2 * (v % 2) - 1) * AttrFar,
                (2 * ((v \div 2) % 2) - 1) * AttrFar,
                (2 * (v \div 4) - 1) * AttrFar >>,
    text |-> << UnitsPerOne * (v % 2), UnitsPerOne * ((v \div 2) % 2) + (v \div 4) >> ]

\* the 36 corners of the cube: the triangles in the order stride * t + shift
\* (a permutation of the twelve), the corners of every triangle rotated by rot
CubeSoup(stride, shift, rot, o) ==
  MakeSoup([k \in 1..36 |->
              CubeCorner(CubeTriangles[((stride * ((k - 1) \div 3) + shift) % 12) + 1]
                                      [((k - 1 + rot) % 3) + 1], o)],
           TRUE)

CubeSoups ==
  { CubeSoup(stride, shift, rot, o) :
      stride \in {1, 5, 7, 11}, shift \in 0..MaxShift, rot \in 0..2,
      o \in {0, -2 * UnitsPerOne} }

\* two triangles A B C and B C D that share the edge B C.  The corners of
\* the second triangle at B and C have the position and the normal of the
\* first triangle's and a texcoord moved by seam (more than every tolerance);
\* d is the length of the sides, rot rotates the corners of the second
\* triangle, and swap puts the second triangle first
EdgeCorner(x, y, seam) ==
  [ vert |-> <<x, y, 0>>, norm |-> <<0, 0, AttrFar>>,
    text |-> <<x + seam[1], y + seam[2]>> ]

EdgeSoup(d, seam, rot, swap) ==
  LET first == << EdgeCorner(0, 0, <<0, 0>>), EdgeCorner(d, 0, <<0, 0>>),
                  EdgeCorner(0, d, <<0, 0>>) >>
      other == << EdgeCorner(d, 0, seam), EdgeCorner(0, d, seam),
                  EdgeCorner(d, d, seam) >>
      second == [k \in 1..3 |-> other[((k - 1 + rot) % 3) + 1]]
  IN  MakeSoup(IF swap THEN second \o first ELSE first \o second, TRUE)

EdgeSoups ==
  { EdgeSoup(d, seam, rot, swap) :
      d \in {AttrFar, UnitsPerOne},
      seam \in {<<AttrFar, 0>>, <<0, AttrFar>>, <<-AttrFar, 0>>, <<AttrFar, AttrFar>>},
      rot \in 0..2, swap \in BOOLEAN }

\* the two triangles of a square with sides of one unit, the corners on the
\* diagonal given twice: with the normals of EdgeSoup, with another normal
\* on the second triangle (a hard edge along the diagonal), or without normals
SquareSoups ==
  { [soup EXCEPT !.norm = IF normals = "none" THEN <<>>
                          ELSE IF normals = "smooth" THEN @
                          ELSE [k \in 1..6 |-> IF k <= 3 THEN @[k] ELSE <<AttrFar, 0, 0>>]] :
      soup \in { EdgeSoup(1, <<0, 0>>, rot, FALSE) : rot \in 0..2 },
      normals \in {"none", "smooth", "hard"} }

\* one triangle of a scene so large that the grid is capped at
\* kSparseGridMaxSize cells: with a tolerance of one unit and corners at 0
\* and at the far end the padded side is 11/3 * kSparseGridMaxSize units, and
\* a border between two cells lies between the positions 0 and 1
LargeSoups ==
  LET far == (11 * kSparseGridMaxSize) \div 3 - 2 * kAABBMarginFactor
  IN  { MakeSoup(cs, TRUE) :
          cs \in [1..3 -> { Corner(x, 0, 0) : x \in (0..MaxCoord) \cup {far - 1, far} }] }

\* make_indexed_mesh called on a cube with the tolerance 1e-4, on a pair of
\* triangles or a square with any tolerance of the model, or on a triangle
\* of a large scene with a positive tolerance, while the output stage is at
\* rest
ShapeInit ==
  /\ pc = "bounds"
  /\ \/ aSoup \in CubeSoups /\ aErrorTolerance = 1
     \/ aSoup \in EdgeSoups /\ aErrorTolerance \in Tolerances
     \/ aSoup \in SquareSoups /\ aErrorTolerance \in Tolerances
     \/ aSoup \in LargeSoups /\ aErrorTolerance \in 1..MaxTolerance
  /\ dis = NoDiscretizer
  /\ vincinityMap = {}
  /\ cv = CollapseStart(0)
  /\ i = 0
  /\ ret = EmptyMesh
  /\ IoIdle

SpecShapes == ShapeInit /\ [][MeshNext]_vars

\* C11: the unit cube given as 36 corners (8 distinct positions, every
\* occurrence of a position with the same normal and texcoord) and indexed
\* with the tolerance 1e-4 yields exactly 8 unique vertices, one per position,
\* and 36 indices in 0..7, each naming the vertex at its corner's position,
\* whatever the order of the triangles and of their corners.
C11_CubeWelds ==
  (pc = "done" /\ aSoup \in CubeSoups) =>
    /\ Len(ret.vert) = 8
    /\ Cardinality({ ret.vert[s] : s \in 1..Len(ret.vert) }) = 8
    /\ Len(ret.indices) = 36
    /\ \A k \in 1..Len(ret.indices) :
         /\ ret.indices[k] \in 0..7
         /\ ret.vert[ret.indices[k] + 1] = aSoup.vert[k]

\* a cube whose triangles are not in the order of the faces, indexed
C11_Witness ==
  /\ pc = "done"
  /\ aSoup \in CubeSoups
  /\ aSoup.vert[1] # aSoup.vert[4]
  /\ aSoup.vert[1][1] < 0
  /\ Len(ret.vert) = 8
  /\ ret.indices[36] < 7

\* C12: two triangles that share an edge, the two shared corners given with
\* the same position and normal but with texcoords further apart than the
\* tolerance, index to 6 unique vertices and 6 pairwise distinct indices.
C12_SeamSplits ==
  (pc = "done" /\ aSoup \in EdgeSoups) =>
    /\ Len(ret.vert) = 6
    /\ Len(ret.indices) = 6
    /\ \A j, k \in 1..Len(ret.indices) : j # k => ret.indices[j] # ret.indices[k]

\* such a pair indexed with a positive tolerance: two corners on the shared
\* edge with one position and one normal were kept apart
C12_Witness ==
  /\ pc = "done"
  /\ aSoup \in EdgeSoups
  /\ aErrorTolerance > 0
  /\ \E a, b \in VertexIds(aSoup) :
       /\ a # b
       /\ aSoup.vert[a + 1] = aSoup.vert[b + 1]
       /\ aSoup.norm[a + 1] = aSoup.norm[b + 1]
       /\ \E k \in 1..2 : Abs(aSoup.text[a + 1][k] - aSoup.text[b + 1][k]) > aErrorTolerance
       /\ ret.indices[a + 1] # ret.indices[b + 1]
       /\ ret.text[ret.indices[a + 1] + 1] # ret.text[ret.indices[b + 1] + 1]

\* ------------------------------------------------------------------------
\* make_indexed_mesh called again on its own result
\* ------------------------------------------------------------------------
\* an indexed mesh written out as a soup again: one corner per index, with
\* the attributes of the unique vertex the index names
Expand(mesh) ==
  [ vert |-> [k \in 1..Len(mesh.indices) |-> mesh.vert[mesh.indices[k] + 1]],
    norm |-> IF mesh.norm = <<>> THEN <<>>
             ELSE [k \in 1..Len(mesh.indices) |-> mesh.norm[mesh.indices[k] + 1]],
    text |-> [k \in 1..Len(mesh.indices) |-> mesh.text[mesh.indices[k] + 1]] ]

\* the caller expands the mesh it was returned and indexes it again with a
\* zero tolerance; ret keeps the mesh of the call before until line 113
Reindex ==
  /\ pc = "done"
  /\ aSoup' = Expand(ret)
  /\ aErrorTolerance' = 0
  /\ dis' = NoDiscretizer
  /\ vincinityMap' = {}
  /\ cv' = CollapseStart(0)
  /\ i' = 0
  /\ pc' = "bounds"
  /\ UNCHANGED ret
  /\ UNCHANGED ioVars

ReindexNext ==
  \/ MeshNext
  \/ Reindex

SpecReindex == Init /\ [][ReindexNext]_vars

\* this call indexes, with a zero tolerance, the expansion of the mesh the
\* call before returned, and its merge loop has finished
Reindexed ==
  /\ pc = "shuffle"
  /\ aErrorTolerance = 0
  /\ ret # EmptyMesh
  /\ aSoup = Expand(ret)

\* C13: for every indexed mesh M that make_indexed_mesh returns (for any
\* tolerance), expanding M to a soup and indexing the soup with a zero
\* tolerance yields as many unique vertices as M has.
C13_ReindexKeepsCount ==
  Reindexed => cv.nextVertex = Len(ret.vert)

\* a mesh of three corners in which two were welded, expanded and indexed
\* again on the grid of kSparseGridMaxSize cells: two unique vertices again
C13_Witness ==
  /\ Reindexed
  /\ Len(ret.vert) = 2
  /\ Len(ret.indices) = 3
  /\ cv.nextVertex = 2
  /\ dis.factor = kSparseGridMaxSize

\* ------------------------------------------------------------------------
\* The mesh make_indexed_mesh returns
\* ------------------------------------------------------------------------
\* C14: for every soup, one with an empty normal array included, the
\* returned mesh has vert, norm, text and tangent of one length, the number
\* of unique vertices, so that each of the blocks of V entries the writer
\* emits is backed by V entries.
C14_ArraysOfOneLength ==
  pc = "done" =>
    /\ Len(ret.vert) = cv.nextVertex
    /\ Len(ret.norm) = cv.nextVertex
    /\ Len(ret.text) = cv.nextVertex
    /\ Len(ret.tangent) = cv.nextVertex

\* ------------------------------------------------------------------------
\* The mesh block of the container as the format comments give it
\* ------------------------------------------------------------------------
\* cw2/baked_model.hpp, lines 34-43, and the format comment of
\* write_model_data_: material index, V, I, V vec3 positions, V vec3
\* normals, V vec2 texture coordinates, I uint32_t indices.  The index
\* arrays a consumer gets that reads count mesh blocks by this layout,
\* starting at st.
RECURSIVE DocumentedIndices(_, _, _)
DocumentedIndices(f, st, count) ==
  IF count = 0 THEN <<>>
  ELSE LET materialId == read_uint32_(f, st)
           V == read_uint32_(f, materialId.fin)
           I == read_uint32_(f, V.fin)
           positions == checked_read_(f, I.fin, U32ToNat(V.data) * 12)
           normals == checked_read_(f, positions.fin, U32ToNat(V.data) * 12)
           texcoords == checked_read_(f, normals.fin, U32ToNat(V.data) * 8)
           indices == checked_read_(f, texcoords.fin, U32ToNat(I.data) * 4)
       IN  <<Words(indices.data)>> \o DocumentedIndices(f, indices.fin, count - 1)

\* C15: the block of every mesh in the container is laid out as the format
\* comments of baked_model.hpp and of write_model_data_ say, the I indices
\* right after the V texture coordinates: a consumer that parses the mesh
\* table of the written file by the documented layout reads the index arrays
\* the baker was given.
C15_DocumentedMeshBlock ==
  (ioPc = "meshes" /\ file = Intact) =>
    LET meshCount == read_uint32_(file, fin)
    IN  DocumentedIndices(file, meshCount.fin, U32ToNat(meshCount.data))
          = [k \in 1..Len(aIndexedMeshes) |-> aIndexedMeshes[k].indices]

\* the coordinates of the soup's positions on one axis
Coordinates(axis) == { aSoup.vert[v + 1][axis] : v \in VertexIds(aSoup) }

\* C16: the bounding box of the returned mesh is the component-wise minimum
\* and maximum of the positions of the soup, also for a soup whose
\* coordinates are all negative on some axis.
C16_BoundingBox ==
  pc = "done" =>
    \A axis \in 1..3 :
      /\ \E m \in Coordinates(axis) :
           /\ \A c \in Coordinates(axis) : m <= c
           /\ ret.aabbMin[axis] = Exact(m)
      /\ \E m \in Coordinates(axis) :
           /\ \A c \in Coordinates(axis) : m >= c
           /\ ret.aabbMax[axis] = Exact(m)

\* ------------------------------------------------------------------------
\* The iterations of the loop of collapse_vertices_
\* ------------------------------------------------------------------------
\* a step of the model that is one iteration of the loop over the vertices
Iteration == pc = "collapse" /\ pc' = "collapse" /\ i' = i + 1

\* the vertices the collapse map assigns to slot s
Members(map, s) == { v \in DOMAIN map : map[v] = s }

\* C17: during collapse_vertices_ every entry of the collapse map changes at
\* most once: an iteration stores only into entries that are unassigned, a
\* stored entry is never stored into again, and the slot number stored is
\* below the number of slots allocated when it is stored (nextVertex is
\* incremented before the stores of an iteration, lines 389 and 406).
C17_WrittenOnce ==
  [][ Iteration =>
        \A v \in VertexIds(aSoup) :
          (cv'.collapseMap[v] # cv.collapseMap[v] \/ cv'.writes[v] # cv.writes[v]) =>
            /\ cv.collapseMap[v] = Unassigned
            /\ cv.writes[v] = 0
            /\ cv'.writes[v] = 1
            /\ cv'.collapseMap[v] \in 0..(cv'.nextVertex - 1) ]_vars

\* the loop has gone past a vertex whose entry was stored by the scan of an
\* earlier vertex
C17_Witness ==
  /\ pc = "collapse"
  /\ \E v \in VertexIds(aSoup) :
       /\ v < i
       /\ cv.writes[v] = 1
       /\ RepOf(cv.collapseMap[v]) < v

\* the vertices a scan of vertex v can match: unassigned, not v itself, in
\* one of the cells next to v's, and mergeable with v
Candidates(v) ==
  { idx \in VertexIds(aSoup) :
      /\ idx # v
      /\ cv.collapseMap[idx] = Unassigned
      /\ Mergeable(v, idx)
      /\ \A k \in 1..3 :
           Abs(discretize(dis, aSoup.vert[idx + 1])[k]
                 - discretize(dis, aSoup.vert[v + 1])[k]) <= 1 }

\* C18: an iteration for a vertex i that is unassigned allocates exactly one
\* slot, with i as its representative, and appends exactly one index, that
\* slot, whether no, one or several candidates match; i and every candidate
\* matched are assigned that slot.  An iteration for a vertex that is
\* assigned allocates nothing and appends exactly its slot.
C18_OneSlotPerScan ==
  [][ Iteration =>
        IF cv.collapseMap[i] = Unassigned
          THEN /\ cv'.nextVertex = cv.nextVertex + 1
               /\ cv'.aVertices = Append(cv.aVertices, i)
               /\ cv'.aIndices = Append(cv.aIndices, cv.nextVertex)
               /\ Len(cv.aVertices) = cv.nextVertex
               /\ Members(cv'.collapseMap, cv.nextVertex) = {i} \cup Candidates(i)
          ELSE /\ cv'.nextVertex = cv.nextVertex
               /\ cv'.aVertices = cv.aVertices
               /\ cv'.aIndices = Append(cv.aIndices, cv.collapseMap[i])
               /\ cv'.collapseMap = cv.collapseMap ]_vars

\* a scan that matched two candidates has been followed by the iteration of
\* one of them
C18_Witness ==
  /\ pc = "collapse"
  /\ \E s \in 0..(cv.nextVertex - 1) :
       /\ Cardinality(Members(cv.collapseMap, s)) = 3
       /\ \E v \in Members(cv.collapseMap, s) : RepOf(s) < v /\ v < i

\* C19: a slot gains members only in the iteration of its representative:
\* no iteration assigns a vertex to a slot that was allocated before it, and
\* a vertex that is unassigned when its iteration starts opens a new slot,
\* also when it is within the tolerance of a member of an earlier slot.
C19_SlotsAreClosed ==
  [][ Iteration =>
        /\ \A s \in 0..(Len(cv.aVertices) - 1) :
             Members(cv'.collapseMap, s) \subseteq Members(cv.collapseMap, s)
        /\ cv.collapseMap[i] = Unassigned =>
             /\ cv'.collapseMap[i] = Len(cv.aVertices)
             /\ cv'.aVertices[cv'.collapseMap[i] + 1] = i ]_vars

\* a vertex within the tolerance of a merge target of an earlier
\* representative, but not of the representative, has opened its own slot
C19_Witness ==
  /\ pc = "collapse"
  /\ \E a, b \in VertexIds(aSoup) :
       /\ a < b /\ b < i
       /\ Mergeable(a, b)
       /\ RepOf(cv.collapseMap[a]) < a
       /\ ~Mergeable(RepOf(cv.collapseMap[a]), b)
       /\ RepOf(cv.collapseMap[b]) = b

\* ------------------------------------------------------------------------
\* The grid of make_indexed_mesh
\* ------------------------------------------------------------------------
\* the cell of a soup vertex in the grid of this call
CellOf(v) == discretize(dis, aSoup.vert[v + 1])

\* the positions of two soup vertices differ by at most the tolerance on
\* every axis
Near(a, b) ==
  \A k \in 1..3 : Abs(aSoup.vert[a + 1][k] - aSoup.vert[b + 1][k]) <= aErrorTolerance

\* C20: with a positive tolerance and the discretizer make_indexed_mesh
\* builds (origin bmin - 10 * tolerance, resolution min(kSparseGridMaxSize,
\* round(maxSide / (2 * tolerance)))), two soup vertices whose positions
\* differ by at most the tolerance on every axis lie in cells that differ by
\* at most 1 on every axis, so that each cell is one of the 27 neighbours
\* the scan of the other vertex looks up; also when the resolution is capped.
C20_NearIsAdjacent ==
  (Collapsing /\ aErrorTolerance > 0) =>
    \A p, q \in { <<v, CellOf(v)>> : v \in VertexIds(aSoup) } :
      Near(p[1], q[1]) =>
        /\ \A k \in 1..3 : Abs(p[2][k] - q[2][k]) <= 1
        /\ \E j \in 0..(kNeighbourCount_ - 1) : neighbour_(p[2], j) = q[2]

\* two vertices within the tolerance of each other in different cells of a
\* grid whose resolution is capped
C20_Witness ==
  /\ Collapsing
  /\ aErrorTolerance > 0
  /\ dis.factor = kSparseGridMaxSize
  /\ (MaxSide(aSoup, aErrorTolerance) + aErrorTolerance) \div (2 * aErrorTolerance)
       > kSparseGridMaxSize
  /\ \E a, b \in VertexIds(aSoup) : Near(a, b) /\ CellOf(a) # CellOf(b)

\* ------------------------------------------------------------------------
\* Discretizer_::discretize on the positions of the soup
\* ------------------------------------------------------------------------
\* (aPos - min) * scale is not a number: the side of the grid is zero, or it
\* is the smallest positive float, and scale = aFactor / aSide is infinite
\* or NaN; every position of such a soup is at min, and 0 * scale is NaN.
\* (When bmax stayed at the smallest positive float on some axis the side is
\* that float and a factor of 0 gives the scale 0.)
ProductIsNaN ==
  /\ dis.side = 0
  /\ dis.factor # 0 \/ BMaxIsFltMin(aSoup) = {}

\* C21: for every soup and every tolerance, zero included, every position
\* handed to discretize is at or above the origin of the grid on every axis,
\* and (position - origin) * scale is a non-negative number that the cast
\* to std::uint32_t can hold, so that every cell coordinate of a soup vertex
\* is non-negative; only the cells neighbour_ makes can have a coordinate -1.
C21_CellsFitCast ==
  Collapsing =>
    /\ ~ProductIsNaN
    /\ \A p \in { <<v, CellOf(v)>> : v \in VertexIds(aSoup) } :
         \A k \in 1..3 :
           /\ aSoup.vert[p[1] + 1][k] - dis.min[k] >= 0
           /\ p[2][k] >= 0
           /\ p[2][k] <= kSparseGridMaxSize

\* ------------------------------------------------------------------------
\* mergable_
\* ------------------------------------------------------------------------
\* what mergable_ returns for the soup vertices a and b in this call
Merges(a, b) ==
  mergable_(aSoup, a, b, aSoup.vert[a + 1], aSoup.vert[b + 1], aErrorTolerance)

\* C22: mergable_ returns true for two vertices exactly when every component
\* of position, of normal (only when the soup has normals) and of texcoord
\* differs by at most the tolerance; the test is made per component (two
\* positions one tolerance apart on two axes pass it), gives the same answer
\* for (a, b) and (b, a), and is passed by a vertex and an exact copy of it.
C22_MergableIsPerComponent ==
  Collapsing =>
    \A a, b \in VertexIds(aSoup) :
      /\ Merges(a, b) <=>
           /\ \A k \in 1..3 :
                Abs(aSoup.vert[a + 1][k] - aSoup.vert[b + 1][k]) <= aErrorTolerance
           /\ \A k \in 1..2 :
                Abs(aSoup.text[a + 1][k] - aSoup.text[b + 1][k]) <= aErrorTolerance
           /\ aSoup.norm # <<>> =>
                \A k \in 1..3 :
                  Abs(aSoup.norm[a + 1][k] - aSoup.norm[b + 1][k]) <= aErrorTolerance
      /\ Merges(a, b) <=> Merges(b, a)
      /\ ( /\ aSoup.vert[a + 1] = aSoup.vert[b + 1]
           /\ aSoup.text[a + 1] = aSoup.text[b + 1]
           /\ aSoup.norm # <<>> => aSoup.norm[a + 1] = aSoup.norm[b + 1] ) => Merges(a, b)

\* two corners of a square welded although the distance of their positions
\* is above the tolerance: each axis alone is within it
C22_Witness ==
  /\ pc = "done"
  /\ \E a, b \in VertexIds(aSoup) :
       /\ Merges(a, b)
       /\ ret.indices[a + 1] = ret.indices[b + 1]
       /\ (aSoup.vert[a + 1][1] - aSoup.vert[b + 1][1]) * (aSoup.vert[a + 1][1] - aSoup.vert[b + 1][1])
            + (aSoup.vert[a + 1][2] - aSoup.vert[b + 1][2]) * (aSoup.vert[a + 1][2] - aSoup.vert[b + 1][2])
            > aErrorTolerance * aErrorTolerance

\* ------------------------------------------------------------------------
\* The texture table of the container
\* ------------------------------------------------------------------------
\* the five texture paths of a material, in the order they are written
PathsOf(mat) ==
  << mat.baseColorTexturePath, mat.roughnessTexturePath,
     mat.metalnessTexturePath, mat.alphaMaskTexturePath,
     mat.normalMapTexturePath >>

\* the non-empty source texture paths that the materials of the model use
UsedPaths ==
  { PathsOf(aModel.materials[k])[j] :
      k \in 1..Len(aModel.materials), j \in 1..5 } \ {<<>>}

\* the texture table and the materials as the bytes of the file hold them
TableRead ==
  CHOOSE ld \in
    { MaterialsOf(file, TRUE,
        TexturesOf(file, <<>>,
                   [ status |-> "ok",
                     fin |-> [pos |-> 32, reads |-> <<16, 32>>],
                     textures |-> <<>>, materials |-> <<>>,
                     meshes |-> <<>> ])) } : TRUE

Short == {k \in 1..Len(fof.log) : fof.log[k].ret # fof.log[k].aBytes}

C25_RepresentativeIsSmallest ==
  Collapsing =>
    /\ \A s, t \in 0..(Len(cv.aVertices) - 1) : s < t => RepOf(s) < RepOf(t)
    /\ \A s \in 0..(Len(cv.aVertices) - 1) :
         /\ cv.collapseMap[RepOf(s)] = s
         /\ \A v \in Members(cv.collapseMap, s) : RepOf(s) <= v
    /\ \A v \in VertexIds(aSoup) :
         (pc = "collapse" /\ v < i) => cv.collapseMap[v] # Unassigned

\* the second slot was opened by a vertex that lies, in the soup, before a
\* vertex that the first slot had merged
C25_Witness ==
  /\ pc = "done"
  /\ Len(cv.aVertices) = 2
  /\ RepOf(0) = 0
  /\ \E v \in Members(cv.collapseMap, 0) : RepOf(1) < v

\* the largest of the first n entries of the index buffer, -1 for none
MaxBefore(indices, n) ==
  IF n = 0 THEN -1
  ELSE CHOOSE m \in {indices[k] : k \in 1..n} :
         \A k \in 1..n : indices[k] <= m

\* C26: the slots are numbered in the order in which they first appear in
\* the index buffer: the first index is 0, every index is at most one more
\* than the largest index before it, the first position at which slot s
\* appears is its representative vertexMapping[s], and every slot is
\* referenced.
C26_FirstAppearanceOrder ==
  /\ Collapsing =>
       /\ \A k \in 1..Len(cv.aIndices) :
            /\ cv.aIndices[k] <= 1 + MaxBefore(cv.aIndices, k - 1)
            /\ k = 1 => cv.aIndices[k] = 0
       /\ \A s \in 0..(Len(cv.aVertices) - 1) :
            /\ RepOf(s) + 1 \in 1..Len(cv.aIndices)
            /\ cv.aIndices[RepOf(s) + 1] = s
            /\ \A k \in 1..RepOf(s) : cv.aIndices[k] # s
  /\ pc = "done" =>
       /\ ret.indices = cv.aIndices
       /\ Len(ret.indices) = SoupSize(aSoup)
       /\ { ret.indices[k] : k \in 1..Len(ret.indices) } = 0..(Len(ret.vert) - 1)

\* an index buffer that returns to slot 0 after slot 1 has appeared
C26_Witness ==
  /\ pc = "done"
  /\ Len(ret.vert) = 2
  /\ ret.indices = <<0, 1, 0>>
  /\ cv.aVertices = <<0, 1>>

\* ------------------------------------------------------------------------
\* What the slots of collapse_vertices_ hold
\* ------------------------------------------------------------------------
\* the largest difference of a component of position, texcoord or (when
\* the soup has normals) normal between vertices a and b
Spread(a, b) ==
  LET diffs ==
        { Abs(aSoup.vert[a + 1][k] - aSoup.vert[b + 1][k]) : k \in 1..3 } \cup
        { Abs(aSoup.text[a + 1][k] - aSoup.text[b + 1][k]) : k \in 1..2 } \cup
        ( IF aSoup.norm = <<>> THEN {}
          ELSE { Abs(aSoup.norm[a + 1][k] - aSoup.norm[b + 1][k]) : k \in 1..3 } )
  IN CHOOSE m \in diffs : \A d \in diffs : d <= m

\* C27: every vertex assigned to a slot passes mergable_ with the
\* representative of the slot, so that two vertices that share a slot differ
\* by at most twice the tolerance on every attribute component.
C27_MembersNearRepresentative ==
  Collapsing =>
    \A s \in 0..(Len(cv.aVertices) - 1) :
      \A a \in Members(cv.collapseMap, s) :
        /\ Merges(RepOf(s), a)
        /\ Spread(RepOf(s), a) <= aErrorTolerance
        /\ \A b \in Members(cv.collapseMap, s) :
             Spread(a, b) <= 2 * aErrorTolerance

\* two vertices share a slot although they lie two tolerances apart: the
\* representative lies between them
C27_Witness ==
  /\ pc = "done"
  /\ aErrorTolerance > 0
  /\ \E a, b \in Members(cv.collapseMap, 0) :
       /\ Spread(a, b) = 2 * aErrorTolerance
       /\ ~Merges(a, b)
       /\ ret.indices[a + 1] = ret.indices[b + 1]

\* C28: for a tolerance above 0 no two representatives pass mergable_ with
\* each other: the representatives of two different slots differ by more
\* than the tolerance in a component of position, normal or texcoord.
C28_RepresentativesApart ==
  (Collapsing /\ aErrorTolerance > 0) =>
    \A s, t \in 0..(Len(cv.aVertices) - 1) :
      s # t =>
        /\ ~Merges(RepOf(s), RepOf(t))
        /\ Spread(RepOf(s), RepOf(t)) > aErrorTolerance

\* two slots whose representatives are apart although a member of the
\* first is within the tolerance of the representative of the second
C28_Witness ==
  /\ pc = "done"
  /\ aErrorTolerance > 0
  /\ Len(cv.aVertices) = 2
  /\ \E a \in Members(cv.collapseMap, 0) : Merges(a, RepOf(1))

\* vertices a and b of the soup are exact copies of each other
Duplicates(a, b) ==
  /\ aSoup.vert[a + 1] = aSoup.vert[b + 1]
  /\ aSoup.text[a + 1] = aSoup.text[b + 1]
  /\ aSoup.norm # <<>> => aSoup.norm[a + 1] = aSoup.norm[b + 1]

\* C29: for every tolerance, 0 included, two vertices with equal position,
\* normal and texcoord are assigned to the same slot, wherever they stand
\* in the soup and whatever the other vertices are: at every point of the
\* loop both are unassigned or both are in one slot, and the returned index
\* buffer holds one index for both.
C29_DuplicatesShareSlot ==
  /\ Collapsing =>
       \A a, b \in VertexIds(aSoup) :
         Duplicates(a, b) => cv.collapseMap[a] = cv.collapseMap[b]
  /\ pc = "done" =>
       \A a, b \in VertexIds(aSoup) :
         Duplicates(a, b) => ret.indices[a + 1] = ret.indices[b + 1]

\* two exact copies were merged by a third vertex that differs from them,
\* and a run with tolerance 0 welded two exact copies
C29_Witness ==
  /\ pc = "done"
  /\ \E a, b \in VertexIds(aSoup) :
       /\ a # b
       /\ Duplicates(a, b)
       /\ ret.indices[a + 1] = ret.indices[b + 1]
       /\ \/ /\ aErrorTolerance > 0
             /\ RepOf(ret.indices[a + 1]) \notin {a, b}
             /\ ~Duplicates(RepOf(ret.indices[a + 1]), a)
          \/ /\ aErrorTolerance = 0
             /\ Len(ret.vert) = 2

\* ------------------------------------------------------------------------
\* The stored paths of the texture table
\* ------------------------------------------------------------------------
\* C30: the paths that new_paths_ stores in the texture table are pairwise
\* distinct: two different source texture paths never get the same stored
\* path, and no copy_file call of process_model_ targets a destination that
\* a copy for another entry has already written.
C30_StoredPathsDistinct ==
  /\ \A p, q \in DOMAIN aTextures :
       p # q => aTextures[p].newPath # aTextures[q].newPath
  /\ \A k \in 1..Len(copies) :
       /\ copies[k].to \notin {copies[j].to : j \in 1..(k - 1)}
       /\ copies[k].ret

====
